---- MODULE Spec2Model ----
(***************************************************************************)
(* Prompt and Smell -- hardware control layer.                             *)
(*                                                                         *)
(* Seven state machines share this module:                                 *)
(*   SpecProtocol   : the serial wire protocol (protocol.py) and           *)
(*                    SerialInterface.send (controller.py)                 *)
(*   SpecResolve    : find_channel_for_ingredient of both configurations   *)
(*                    (config.py, diffuser/config.py)                      *)
(*   SpecCompile    : ScentBlender.create_plan (diffuser_controller.py)    *)
(*   SpecTransition : ScentBlender.create_transition_plans                 *)
(*   SpecLiquid     : PumpController.create_plan (controller.py)           *)
(*   SpecDispense   : ScentDispenser.execute (controller.py)               *)
(*   SpecExecute    : DiffuserController.execute, its activation threads   *)
(*                    and emergency_stop (diffuser_controller.py)          *)
(* SpecCompilers runs either compiler; SpecCooldown runs execute() more    *)
(* than once on the same controller, with a clock and keyboard             *)
(* interrupts; SpecTransitionRun runs execute_transition(); SpecRuns runs  *)
(* either executor.                                                        *)
(*                                                                         *)
(* Text is modelled as sequences of character codes (ord values), times    *)
(* as integer hundredths of a second.                                      *)
(***************************************************************************)
EXTENDS Integers, Sequences, FiniteSets, TLC

VARIABLES
    \* ---- wire protocol ----
    pphase,      \* position of the protocol session
    cmd,         \* result of the command builder
    line,        \* the line handed to verify_checksum / ResponseParser.parse
    lineinfo,    \* how `line` was put together (history of the input)
    verdict,     \* result of verify_checksum(line)
    resp,        \* the Response returned by parse / send
    serial,      \* SerialInterface: simulate flag and whether the port is open
    \* ---- channel resolution ----
    rphase,      \* position of the resolution session
    rin,         \* the configuration and the name handed to the lookup
    rchannels,   \* config.channels: the ingredient name of each channel
    rout,        \* the channel returned, -1 for None
    \* ---- atomizer plan compiler ----
    cphase,      \* position of the compile session
    formula,     \* the formula handed to create_plan
    intensity,   \* the intensity preset name
    plan,        \* the AtomizePlan returned by create_plan
    cinfo,       \* history of the compilation (observations, not program state)
    \* ---- atomizer transition compiler ----
    tphase,      \* position of the transition session
    tin,         \* the arguments of create_transition_plans
    tplans,      \* the plans it returned
    \* ---- liquid plan compiler ----
    lphase,      \* position of the liquid compile session
    lformula,    \* all_items of the formula handed to PumpController.create_plan
    total_volume_ml, \* the total output volume asked for
    pumps,       \* HardwareConfig.channels: channel -> ChannelConfig
    dplan,       \* the DispensePlan returned by create_plan
    dinfo,       \* history: per item, what create_plan did with it
    \* ---- liquid dispenser (uses serial and resp of the wire protocol) ----
    dpc,         \* position of the thread inside ScentDispenser.execute()
    xsteps,      \* plan.steps of the plan handed to execute()
    dnext,       \* index of the step the loop is at
    wire,        \* the builder calls whose commands were handed to send()
    dsuccess,    \* the value execute() returns
    dhist,       \* history of the run (observations, not program state)
    \* ---- atomizer scheduler ----
    xplan,       \* the plan handed to execute(): sequence of steps
    blend_mode,  \* config.blend_mode
    mainpc,      \* position of the thread inside execute()
    groups,      \* the batches / layers still to be run by the blend algorithm
    started,     \* steps of the current group whose thread has been started
    thr,         \* per step of the plan: state of its activation thread
    active,      \* per channel: AtomizerChannel._active
    fan,         \* FanController._active
    running,     \* DiffuserController._running
    success,     \* value returned by execute()
    estop,       \* position of the control path running emergency_stop()
    current_plan, \* DiffuserController._current_plan (<<>> for None)
    now,         \* time.time(), in seconds
    last_run_time, \* DiffuserController._last_run_time
    wake,        \* the time before which time.sleep(wait) does not return
    hist,        \* history of the run (observations, not program state)
    trun         \* the call of execute_transition(): its plans, loop index, old_mode

protoVars   == <<pphase, cmd, line, lineinfo, verdict, resp, serial>>
compileVars == <<cphase, formula, intensity, plan, cinfo>>
liquidVars  == <<lphase, lformula, total_volume_ml, pumps, dplan, dinfo>>
execVars    == <<xplan, blend_mode, mainpc, groups, started, thr, active, fan,
                 running, success, estop, current_plan, now, last_run_time, wake,
                 hist, trun>>
timeVars    == <<now, last_run_time, wake>>
dispVars    == <<dpc, xsteps, dnext, wire, dsuccess, dhist>>
transVars   == <<tphase, tin, tplans>>
resolveVars == <<rphase, rin, rchannels, rout>>
vars        == <<protoVars, resolveVars, compileVars, transVars, liquidVars, dispVars,
                 execVars>>

-----------------------------------------------------------------------------
(* Text helpers: Python str operations on sequences of character codes.    *)

UpperChars == <<"A","B","C","D","E","F","G","H","I","J","K","L","M",
                "N","O","P","Q","R","S","T","U","V","W","X","Y","Z">>
LowerChars == <<"a","b","c","d","e","f","g","h","i","j","k","l","m",
                "n","o","p","q","r","s","t","u","v","w","x","y","z">>
DigitChars == <<"0","1","2","3","4","5","6","7","8","9">>

\* ord(c) for the characters the model writes literally
Ord(c) ==
    IF \E i \in 1..26 : UpperChars[i] = c
    THEN 64 + (CHOOSE i \in 1..26 : UpperChars[i] = c)
    ELSE IF \E i \in 1..26 : LowerChars[i] = c
    THEN 96 + (CHOOSE i \in 1..26 : LowerChars[i] = c)
    ELSE IF \E i \in 1..10 : DigitChars[i] = c
    THEN 47 + (CHOOSE i \in 1..10 : DigitChars[i] = c)
    ELSE CASE c = " "  -> 32
           [] c = "*"  -> 42
           [] c = "-"  -> 45
           [] c = "("  -> 40
           [] c = ")"  -> 41
           [] c = "\n" -> 10
           [] c = "\t" -> 9
           [] c = "\r" -> 13

\* a Python string literal, written as a tuple of one-character strings
Str(s) == [i \in 1..Len(s) |-> Ord(s[i])]

\* str.isspace() on one character
IsSpace(c) == c \in {9, 10, 11, 12, 13, 28, 29, 30, 31, 32, 133, 160}

\* str.upper()
Upper(s) == [i \in 1..Len(s) |-> IF s[i] >= 97 /\ s[i] <= 122 THEN s[i] - 32 ELSE s[i]]

RECURSIVE LStrip(_)
LStrip(s) == IF s # <<>> /\ IsSpace(Head(s)) THEN LStrip(Tail(s)) ELSE s

RECURSIVE RStrip(_)
RStrip(s) == IF s # <<>> /\ IsSpace(s[Len(s)]) THEN RStrip(SubSeq(s, 1, Len(s) - 1)) ELSE s

\* str.strip()
Strip(s) == RStrip(LStrip(s))

\* c in s
Contains(s, c) == \E i \in 1..Len(s) : s[i] = c

\* s.rindex(c), 0-based as in Python; only used when c is in s
RIndex(s, c) == (CHOOSE i \in 1..Len(s) : s[i] = c /\ \A j \in (i+1)..Len(s) : s[j] # c) - 1

\* s.startswith(p)
StartsWith(s, p) == Len(s) >= Len(p) /\ SubSeq(s, 1, Len(p)) = p

\* " ".join(parts)
RECURSIVE Join(_)
Join(parts) ==
    IF parts = <<>> THEN <<>>
    ELSE IF Len(parts) = 1 THEN parts[1]
    ELSE parts[1] \o <<32>> \o Join(Tail(parts))

\* str(n) for an int: decimal digits, with a leading minus sign when negative
RECURSIVE NatStr(_)
NatStr(n) == IF n < 10 THEN <<48 + n>> ELSE NatStr(n \div 10) \o <<48 + (n % 10)>>

IntStr(n) == IF n < 0 THEN <<45>> \o NatStr(-n) ELSE NatStr(n)

\* a ^ b on non-negative ints
RECURSIVE BitXor(_, _)
BitXor(a, b) ==
    IF a = 0 THEN b
    ELSE IF b = 0 THEN a
    ELSE 2 * BitXor(a \div 2, b \div 2) + (((a % 2) + (b % 2)) % 2)

\* one uppercase hexadecimal digit
HexDigit(d) == IF d < 10 THEN 48 + d ELSE 55 + d

\* f"{n:X}"
RECURSIVE HexStr(_)
HexStr(n) == IF n < 16 THEN <<HexDigit(n)>> ELSE HexStr(n \div 16) \o <<HexDigit(n % 16)>>

\* f"{n:02X}": at least two digits, zero padded
Hex02(n) == IF n < 16 THEN <<48>> \o HexStr(n) ELSE HexStr(n)

-----------------------------------------------------------------------------
(* protocol.py: constants                                                  *)

COMMAND_TERMINATOR == Str(<<"\n">>)
CHECKSUM_PREFIX    == Ord("*")
RESPONSE_OK        == Str(<<"O","K">>)
RESPONSE_ERR       == Str(<<"E","R","R">>)

CommandType == {"START", "PUMP", "WAIT", "FLUSH", "STOP", "STATUS", "CALIBRATE"}

\* CommandType.value
CommandTypeValue(t) ==
    CASE t = "START"     -> Str(<<"S","T","A","R","T">>)
      [] t = "PUMP"      -> Str(<<"P","U","M","P">>)
      [] t = "WAIT"      -> Str(<<"W","A","I","T">>)
      [] t = "FLUSH"     -> Str(<<"F","L","U","S","H">>)
      [] t = "STOP"      -> Str(<<"S","T","O","P">>)
      [] t = "STATUS"    -> Str(<<"S","T","A","T","U","S">>)
      [] t = "CALIBRATE" -> Str(<<"C","A","L","I","B","R","A","T","E">>)

\* ResponseCode values
ERR_UNKNOWN_CMD == Str(<<"E","0","1">>)
ERR_BAD_ARGS    == Str(<<"E","0","2">>)
ERR_CHANNEL_OOB == Str(<<"E","0","3">>)
ERR_DURATION_OOB == Str(<<"E","0","4">>)
ERR_BUSY        == Str(<<"E","0","5">>)
ERR_NOT_STARTED == Str(<<"E","0","6">>)
ERR_CHECKSUM    == Str(<<"E","0","7">>)
ERR_HARDWARE    == Str(<<"E","0","8">>)
ERR_TIMEOUT     == Str(<<"E","0","9">>)

ResponseCode == {RESPONSE_OK, ERR_UNKNOWN_CMD, ERR_BAD_ARGS, ERR_CHANNEL_OOB,
                 ERR_DURATION_OOB, ERR_BUSY, ERR_NOT_STARTED, ERR_CHECKSUM,
                 ERR_HARDWARE, ERR_TIMEOUT}

\* None
None == <<-1>>

-----------------------------------------------------------------------------
(* protocol.py: checksum                                                   *)

RECURSIVE XorBytes(_, _)
XorBytes(payload, acc) ==
    IF payload = <<>> THEN acc
    ELSE XorBytes(Tail(payload), BitXor(acc, Head(payload)))

\* a checksum that also covers the separator written before the marker
compute_checksum_WithSeparator(payload) == Hex02(XorBytes(payload \o <<32>>, 0))

\* compute_checksum(payload): XOR of every ord(ch), as f"{xor:02X}"
compute_checksum(payload) == Hex02(XorBytes(payload, 0))

\* verify_checksum(message)
verify_checksum(message) ==
    IF ~Contains(message, CHECKSUM_PREFIX)
    THEN TRUE
    ELSE LET idx      == RIndex(message, CHECKSUM_PREFIX)
             payload  == SubSeq(message, 1, idx)
             expected == Strip(SubSeq(message, idx + 2, Len(message)))
         IN  Upper(compute_checksum(payload)) = Upper(expected)

-----------------------------------------------------------------------------
(* protocol.py: CommandBuilder                                             *)

\* the outcome of a builder call that raised ValueError: no Command exists
Rejected == [error |-> "ValueError", command_type |-> "", args |-> <<>>, raw |-> <<>>]

\* CommandBuilder._build(cmd_type, *args)
Build(cmd_type, args) ==
    LET parts    == <<CommandTypeValue(cmd_type)>> \o args
        payload  == Join(parts)
        checksum == compute_checksum(payload)
        raw      == payload \o <<32, CHECKSUM_PREFIX>> \o checksum \o COMMAND_TERMINATOR
    IN  [error |-> "", command_type |-> cmd_type, args |-> args, raw |-> raw]

\* CommandBuilder.start()
BuildStart == Build("START", <<>>)

\* a pump() that takes its arguments as they come
BuildPump_Unchecked(channel, duration_ms) ==
    Build("PUMP", <<IntStr(channel), IntStr(duration_ms)>>)

\* CommandBuilder.pump(channel, duration_ms)
BuildPump(channel, duration_ms) ==
    IF channel < 0 \/ channel > 255 THEN Rejected
    ELSE IF duration_ms < 0 THEN Rejected
    ELSE Build("PUMP", <<IntStr(channel), IntStr(duration_ms)>>)

\* CommandBuilder.wait(ms)
BuildWait(ms) ==
    IF ms < 0 THEN Rejected
    ELSE Build("WAIT", <<IntStr(ms)>>)

\* CommandBuilder.flush()
BuildFlush == Build("FLUSH", <<>>)

\* CommandBuilder.stop()
BuildStop == Build("STOP", <<>>)

\* CommandBuilder.status()
BuildStatus == Build("STATUS", <<>>)

\* CommandBuilder.calibrate(channel)
BuildCalibrate(channel) ==
    IF channel < 0 \/ channel > 255 THEN Rejected
    ELSE Build("CALIBRATE", <<IntStr(channel)>>)

-----------------------------------------------------------------------------
(* protocol.py: ResponseParser                                             *)

\* Response(success, code, message, data, raw); message is a fixed text
\* followed by a variable text (an f-string's interpolated part)
Response(ok, code, msg, text, data, raw) ==
    [success |-> ok, code |-> code, message |-> msg, text |-> text,
     data |-> data, raw |-> raw]

\* the first whitespace-free run of s
RECURSIVE FirstToken(_)
FirstToken(s) ==
    IF s = <<>> \/ IsSpace(Head(s)) THEN <<>>
    ELSE <<Head(s)>> \o FirstToken(Tail(s))

\* s.split(None, 2) for a stripped, non-empty s
Split2(s) ==
    LET t1 == FirstToken(s)
        r1 == LStrip(SubSeq(s, Len(t1) + 1, Len(s)))
        t2 == FirstToken(r1)
        r2 == LStrip(SubSeq(r1, Len(t2) + 1, Len(r1)))
    IN  IF r1 = <<>> THEN <<t1>>
        ELSE IF r2 = <<>> THEN <<t1, t2>>
        ELSE <<t1, t2, r2>>

\* a classification that files every line without the OK prefix under ERR
ParseBody_AllErr(stripped, raw) ==
    IF StartsWith(stripped, RESPONSE_OK)
    THEN LET d == Strip(SubSeq(stripped, Len(RESPONSE_OK) + 1, Len(stripped)))
         IN  Response(TRUE, RESPONSE_OK, "Command accepted", <<>>,
                      IF d = <<>> THEN None ELSE d, raw)
    ELSE LET parts == Split2(stripped)
         IN  Response(FALSE,
                      IF Len(parts) > 1 THEN parts[2] ELSE Str(<<"E","0","0">>),
                      IF Len(parts) > 2 THEN "" ELSE "Unknown error",
                      IF Len(parts) > 2 THEN parts[3] ELSE <<>>,
                      None, raw)

\* ResponseParser.parse, from the OK test on (stripped holds no checksum part)
ParseBody(stripped, raw) ==
    IF StartsWith(stripped, RESPONSE_OK)
    THEN LET d == Strip(SubSeq(stripped, Len(RESPONSE_OK) + 1, Len(stripped)))
         IN  Response(TRUE, RESPONSE_OK, "Command accepted", <<>>,
                      IF d = <<>> THEN None ELSE d, raw)
    ELSE IF StartsWith(stripped, RESPONSE_ERR)
    THEN LET parts == Split2(stripped)
         IN  Response(FALSE,
                      IF Len(parts) > 1 THEN parts[2] ELSE Str(<<"E","0","0">>),
                      IF Len(parts) > 2 THEN "" ELSE "Unknown error",
                      IF Len(parts) > 2 THEN parts[3] ELSE <<>>,
                      None, raw)
    ELSE Response(FALSE, ERR_UNKNOWN_CMD, "Unexpected response format: ",
                  stripped, None, raw)

\* a parser that strips the checksum of a line without verifying it
Parse_Unverified(raw) ==
    LET stripped == Strip(raw)
    IN  IF stripped = <<>>
        THEN Response(FALSE, ERR_TIMEOUT, "Empty response (possible timeout)",
                      <<>>, None, raw)
        ELSE IF Contains(stripped, CHECKSUM_PREFIX)
        THEN ParseBody(Strip(SubSeq(stripped, 1, RIndex(stripped, CHECKSUM_PREFIX))),
                       raw)
        ELSE ParseBody(stripped, raw)

\* ResponseParser.parse(raw)
Parse(raw) ==
    LET stripped == Strip(raw)
    IN  IF stripped = <<>>
        THEN Response(FALSE, ERR_TIMEOUT, "Empty response (possible timeout)",
                      <<>>, None, raw)
        ELSE IF Contains(stripped, CHECKSUM_PREFIX)
        THEN IF ~verify_checksum(stripped)
             THEN Response(FALSE, ERR_CHECKSUM, "Response checksum mismatch",
                           <<>>, None, raw)
             ELSE ParseBody(Strip(SubSeq(stripped, 1, RIndex(stripped, CHECKSUM_PREFIX))),
                            raw)
        ELSE ParseBody(stripped, raw)

-----------------------------------------------------------------------------
(* Inputs of the protocol session                                          *)

MaxRxTokens == 3

\* integer arguments handed to the builder: inside, on and outside the ranges
ChannelArgs  == {-1, 0, 7, 255, 256}
DurationArgs == {-1, 0, 50, 1500}

\* words a controller board may put on a line
RxTokens == {RESPONSE_OK, RESPONSE_ERR, ERR_BUSY, Str(<<"x">>), <<CHECKSUM_PREFIX>>}

RECURSIVE JoinWith(_, _)
JoinWith(parts, sep) ==
    IF parts = <<>> THEN <<>>
    ELSE IF Len(parts) = 1 THEN parts[1]
    ELSE parts[1] \o sep \o JoinWith(Tail(parts), sep)

RxSeparators == {<<>>, <<32>>}

\* the text of a received line before any checksum part
RxBodies ==
    UNION { { JoinWith(ws, sep) : ws \in [1..n -> RxTokens], sep \in RxSeparators }
            : n \in 0..MaxRxTokens }

\* what follows the text: nothing, or a checksum marker and a checksum field
RxSuffixKinds == {"none", "match", "lower", "spaced", "flip", "junk", "empty"}

LowerHex(s) == [i \in 1..Len(s) |-> IF s[i] >= 65 /\ s[i] <= 70 THEN s[i] + 32 ELSE s[i]]

\* the checksum a board computes over the text `pre` it puts before the marker
\* (reference arithmetic, independent of the host's compute_checksum)
BoardXor(pre) ==
    LET Bit(k, c) == (c \div (2^k)) % 2
        Par(k)    == (LET S == {i \in 1..Len(pre) : Bit(k, pre[i]) = 1} IN Cardinality(S) % 2)
        v         == Par(0) + 2*Par(1) + 4*Par(2) + 8*Par(3) + 16*Par(4) + 32*Par(5)
                     + 64*Par(6) + 128*Par(7)
    IN  v

BoardHex(v) == <<HexDigit(v \div 16), HexDigit(v % 16)>>

RxSuffix(kind, pre) ==
    CASE kind = "none"   -> <<>>
      [] kind = "match"  -> <<CHECKSUM_PREFIX>> \o BoardHex(BoardXor(pre))
      [] kind = "lower"  -> <<CHECKSUM_PREFIX>> \o LowerHex(BoardHex(BoardXor(pre)))
      [] kind = "spaced" -> <<CHECKSUM_PREFIX, 32>> \o BoardHex(BoardXor(pre))
      [] kind = "flip"   -> <<CHECKSUM_PREFIX>> \o BoardHex(BitXor(BoardXor(pre), 1))
      [] kind = "junk"   -> <<CHECKSUM_PREFIX>> \o Str(<<"Z","Z">>)
      [] kind = "empty"  -> <<CHECKSUM_PREFIX>>

\* whitespace around a received line: <<lead, trail>>
RxMargins == { <<<<>>, <<>>>>, <<<<32>>, <<>>>>, <<<<>>, <<10>>>> }

\* a received line: lead, body, separator, then the suffix computed over the
\* text that precedes the marker once leading whitespace is dropped
RxLine(lead, body, sepm, kind, trail) ==
    lead \o body \o sepm \o RxSuffix(kind, LStrip(lead \o body \o sepm)) \o trail

\* characters written over a checksum character
TamperChars == { 48 + d : d \in 0..9 } \cup { 65 + d : d \in 0..5 } \cup { 97 + d : d \in 0..5 }
                \cup { 32, 42, 71 }

-----------------------------------------------------------------------------
(* The protocol session                                                    *)

NoResponse == Response(FALSE, <<>>, "", <<>>, None, <<>>)
NoCall     == [verb |-> "", channel |-> 0, ms |-> 0]
NoInfo     == [kind |-> "", pre |-> <<>>, sepm |-> <<>>, pos |-> 0, ch |-> 0,
               write |-> "", read |-> "", call |-> NoCall]

InitProtocol ==
    /\ pphase = "idle"
    /\ cmd = Rejected
    /\ line = <<>>
    /\ lineinfo = NoInfo
    /\ verdict = FALSE
    /\ resp = NoResponse
    /\ serial \in [simulate : BOOLEAN, open : {FALSE}]

ParkedProtocol ==
    /\ pphase = "off"
    /\ cmd = Rejected
    /\ line = <<>>
    /\ lineinfo = NoInfo
    /\ verdict = FALSE
    /\ resp = NoResponse
    /\ serial = [simulate |-> FALSE, open |-> FALSE]

\* the protocol session leaves the compiler and the scheduler alone
ProtocolFrame ==
    UNCHANGED <<resolveVars, compileVars, transVars, liquidVars, dispVars, execVars>>

\* the calls of the CommandBuilder methods: the method and its arguments
BuilderCalls ==
    { [NoCall EXCEPT !.verb = v] : v \in {"START", "FLUSH", "STOP", "STATUS"} }
    \cup { [verb |-> "PUMP", channel |-> c, ms |-> d] : c \in ChannelArgs, d \in DurationArgs }
    \cup { [NoCall EXCEPT !.verb = "WAIT", !.ms = d] : d \in DurationArgs }
    \cup { [NoCall EXCEPT !.verb = "CALIBRATE", !.channel = c] : c \in ChannelArgs }

\* what a call returns: the Command, or Rejected when it raised
CallBuilder(call) ==
    CASE call.verb = "START"     -> BuildStart
      [] call.verb = "PUMP"      -> BuildPump(call.channel, call.ms)
      [] call.verb = "WAIT"      -> BuildWait(call.ms)
      [] call.verb = "FLUSH"     -> BuildFlush
      [] call.verb = "STOP"      -> BuildStop
      [] call.verb = "STATUS"    -> BuildStatus
      [] call.verb = "CALIBRATE" -> BuildCalibrate(call.channel)

BuildCommand ==
    /\ pphase = "idle"
    /\ \E call \in BuilderCalls :
          /\ cmd' = CallBuilder(call)
          /\ lineinfo' = [NoInfo EXCEPT !.kind = "call", !.call = call]
    /\ pphase' = "built"
    /\ UNCHANGED <<line, verdict, resp, serial>>
    /\ ProtocolFrame

\* SerialInterface.connect() opens the port (in simulate mode nothing is opened)
Connect ==
    /\ pphase = "built"
    /\ ~serial.simulate
    /\ ~serial.open
    /\ serial' = [serial EXCEPT !.open = TRUE]
    /\ UNCHANGED <<pphase, cmd, line, lineinfo, verdict, resp>>
    /\ ProtocolFrame

\* verify_checksum applied to the wire line of the built command
VerifyBuilt ==
    /\ pphase = "built"
    /\ cmd.error = ""
    /\ line' = cmd.raw
    /\ verdict' = verify_checksum(cmd.raw)
    /\ lineinfo' = [NoInfo EXCEPT !.kind = "encoded"]
    /\ pphase' = "verified"
    /\ UNCHANGED <<cmd, resp, serial>>
    /\ ProtocolFrame

\* one character of the checksum field of the wire line is replaced by a
\* different character before verify_checksum sees it
VerifyTampered ==
    /\ pphase = "built"
    /\ cmd.error = ""
    /\ \E k \in 1..2, ch \in TamperChars :
          LET pos == Len(cmd.raw) - 3 + k
          IN  /\ ch # cmd.raw[pos]
              /\ line' = [cmd.raw EXCEPT ![pos] = ch]
              /\ verdict' = verify_checksum([cmd.raw EXCEPT ![pos] = ch])
              /\ lineinfo' = [NoInfo EXCEPT !.kind = "tampered", !.pos = pos, !.ch = ch]
    /\ pphase' = "verified"
    /\ UNCHANGED <<cmd, resp, serial>>
    /\ ProtocolFrame

\* ResponseParser.parse applied to a received line
ParseLine ==
    /\ pphase = "idle"
    /\ \E m \in RxMargins, body \in RxBodies, sepm \in RxSeparators,
          kind \in RxSuffixKinds :
          LET raw == RxLine(m[1], body, sepm, kind, m[2])
          IN  /\ line' = raw
              /\ resp' = Parse(raw)
              /\ lineinfo' = [NoInfo EXCEPT !.kind = kind,
                                            !.pre = LStrip(m[1] \o body \o sepm)]
    /\ pphase' = "parsed"
    /\ UNCHANGED <<cmd, verdict, serial>>
    /\ ProtocolFrame

\* lines a controller board answers with
DeviceReplies ==
    { RxLine(<<>>, body, <<32>>, kind, <<>>) :
        body \in { RESPONSE_OK,
                   RESPONSE_OK \o <<32>> \o Str(<<"x">>),
                   RESPONSE_ERR \o <<32>> \o ERR_BUSY \o <<32>> \o Str(<<"x">>),
                   Str(<<"x">>) },
        kind \in {"none", "match", "flip"} }

\* what the serial port does with one exchange: write() returns, exceeds
\* write_timeout (pyserial raises SerialTimeoutException) or fails otherwise;
\* readline() returns a whole line, nothing or a partial line when the read
\* timeout expires, or fails
WriteOutcomes == {"ok", "timeout", "error"}
ReadOutcomes  == {"line", "silence", "partial", "error"}

\* SerialInterface.send(command_raw): `received` is what readline() returns
Send(command_raw, write, read, received) ==
    IF serial.simulate
    THEN Response(TRUE, RESPONSE_OK, "Simulated OK", <<>>, None,
                  Str(<<"O","K"," ","(","s","i","m","u","l","a","t","e","d",")">>))
    ELSE IF ~serial.open
    THEN Response(FALSE, Str(<<"E","0","8">>), "Serial port not connected", <<>>, None, <<>>)
    ELSE IF write # "ok" \/ read = "error"
    THEN Response(FALSE, Str(<<"E","0","8">>), "Serial error: ", <<>>, None, <<>>)
    ELSE Parse(received)

SendCommand ==
    /\ pphase = "built"
    /\ cmd.error = ""
    /\ \E w \in WriteOutcomes, r \in ReadOutcomes, reply \in DeviceReplies,
          n \in 1..3 :
          LET received == CASE r = "line"    -> reply \o COMMAND_TERMINATOR
                            [] r = "partial" -> SubSeq(reply, 1, n)
                            [] OTHER         -> <<>>
          IN  /\ n <= Len(reply)
              /\ resp' = Send(cmd.raw, w, r, received)
              /\ line' = received
              /\ lineinfo' = [NoInfo EXCEPT !.kind = "exchange", !.write = w, !.read = r]
    /\ pphase' = "sent"
    /\ UNCHANGED <<cmd, verdict, serial>>
    /\ ProtocolFrame

NextProtocol ==
    \/ BuildCommand
    \/ Connect
    \/ VerifyBuilt
    \/ VerifyTampered
    \/ ParseLine
    \/ SendCommand

-----------------------------------------------------------------------------
(* diffuser/config.py: timing and safety constants (times in 1/100 s)      *)

NUM_CHANNELS              == 16
MIN_ACTIVATION_TIME_S     == 50
MAX_ACTIVATION_TIME_S     == 1000
MAX_TOTAL_ACTIVATION_S    == 6000
MAX_SIMULTANEOUS_CHANNELS == 8

\* INTENSITY_PRESETS, multipliers in percent
INTENSITY_PRESETS ==
    [whisper |-> 15, low |-> 30, medium |-> 60, high |-> 85, max |-> 100]

DEFAULT_INTENSITY == "medium"

BLEND_MODE_SIMULTANEOUS == "simultaneous"
BLEND_MODE_SEQUENTIAL   == "sequential"
BLEND_MODE_LAYERED      == "layered"

\* str.lower()
Lower(s) == [i \in 1..Len(s) |-> IF s[i] >= 65 /\ s[i] <= 90 THEN s[i] + 32 ELSE s[i]]

\* a in b for two strings
IsSubstring(a, b) ==
    \E i \in 0..(Len(b) - Len(a)) : SubSeq(b, i + 1, i + Len(a)) = a

\* DiffuserHardwareConfig.channels: channel number -> ingredient name; the
\* registry used here names channel c by the c-th capital letter
Registry == [c \in 0..(NUM_CHANNELS - 1) |-> <<65 + c>>]

\* a lookup with one loop, returning the first channel that matches at all
FindChannel_OnePass(channels, name_lower) ==
    LET any == {c \in DOMAIN channels :
                   \/ IsSubstring(name_lower, Lower(channels[c]))
                   \/ IsSubstring(Lower(channels[c]), name_lower)}
    IN  IF any # {} THEN CHOOSE c \in any : \A d \in any : c <= d ELSE -1

\* the two loops of find_channel_for_ingredient over self.channels.items(),
\* channels in the order of their numbers; -1 stands for None
FindChannel(channels, name_lower) ==
    LET exact   == {c \in DOMAIN channels : Lower(channels[c]) = name_lower}
        partial == {c \in DOMAIN channels :
                       \/ IsSubstring(name_lower, Lower(channels[c]))
                       \/ IsSubstring(Lower(channels[c]), name_lower)}
        First(S) == CHOOSE c \in S : \A d \in S : c <= d
    IN  IF exact # {} THEN First(exact)
        ELSE IF partial # {} THEN First(partial)
        ELSE -1

\* DiffuserHardwareConfig.find_channel_for_ingredient; -1 stands for None
find_channel_for_ingredient(ingredient_name) ==
    FindChannel(Registry, Strip(Lower(ingredient_name)))

-----------------------------------------------------------------------------
(* The resolution session: find_channel_for_ingredient of either           *)
(* configuration class on a small registry                                 *)

MaxChannels == 3

\* ingredient names of channels: "", "a", "b", "B", "ab", "Ab", "ba"
ChannelNames == { <<>>, <<97>>, <<98>>, <<66>>, <<97, 98>>, <<65, 98>>, <<98, 97>> }

\* names asked for: those, and " a ", "c", "abc", "BA "
AskedNames ==
    ChannelNames \cup { <<32, 97, 32>>, <<99>>, <<97, 98, 99>>, <<66, 65, 32>> }

NoLookup == [config |-> "", channels |-> <<>>, name |-> <<>>]

InitResolve ==
    /\ rphase = "idle"
    /\ \E n \in 1..MaxChannels :
          rchannels \in [0..(n - 1) -> ChannelNames]
    /\ rin = NoLookup
    /\ rout = -1

ParkedResolve ==
    /\ rphase = "off"
    /\ rchannels = <<>>
    /\ rin = NoLookup
    /\ rout = -1

ResolveFrame ==
    UNCHANGED <<protoVars, compileVars, transVars, liquidVars, dispVars, execVars>>

\* config.find_channel_for_ingredient(ingredient_name) on a HardwareConfig
\* ("pump") or a DiffuserHardwareConfig ("diffuser"), which strips the name
FindChannelCall ==
    /\ rphase = "idle"
    /\ \E config \in {"pump", "diffuser"}, name \in AskedNames :
          /\ rin' = [config |-> config, channels |-> rchannels, name |-> name]
          /\ rout' = FindChannel(rchannels,
                                 IF config = "diffuser"
                                 THEN Strip(Lower(name)) ELSE Lower(name))
    /\ rphase' = "done"
    /\ UNCHANGED rchannels
    /\ ResolveFrame

NextResolve == FindChannelCall

-----------------------------------------------------------------------------
(* diffuser_controller.py: ScentBlender.create_plan                        *)

\* round(x, 2) of the value num/den seconds, in 1/100 s: nearest, ties to even
\* (num, den in the same unit; the quotient is in 1/100 s)
RoundDiv(num, den) ==
    LET q == num \div den
        r == num % den
    IN  IF 2 * r < den THEN q
        ELSE IF 2 * r > den THEN q + 1
        ELSE IF q % 2 = 0 THEN q ELSE q + 1

\* str.lower() of a note type / category label
LabelLower(l) ==
    CASE l = "Base"    -> "base"
      [] l = "Top"     -> "top"
      [] l = "Carrier" -> "carrier"
      [] OTHER         -> l

\* the aroma_ingredients filter
IsAroma(ing) ==
    /\ LabelLower(ing.note_type) # "carrier"
    /\ LabelLower(ing.category) # "carrier"

RECURSIVE SelectSeq2(_, _)
SelectSeq2(s, i) ==
    IF i > Len(s) THEN <<>>
    ELSE (IF IsAroma(s[i]) THEN <<s[i]>> ELSE <<>>) \o SelectSeq2(s, i + 1)

AromaIngredients(ingredients) == SelectSeq2(ingredients, 1)

MaxOf(S) == CHOOSE x \in S : \A y \in S : y <= x

\* max_pct over the aroma ingredients, 1 when not positive (percentages in
\* whole percent)
MaxPct(aroma) ==
    LET m == MaxOf({aroma[i].percentage : i \in 1..Len(aroma)})
    IN  IF m <= 0 THEN 1 ELSE m

\* the clamped activation time of one ingredient, as a rational num/den of
\* 1/100 s: normalized * MAX_ACTIVATION_TIME_S * intensity_mult, clamped
ActivationTime(percentage, max_pct, mult) ==
    LET num == percentage * MAX_ACTIVATION_TIME_S * mult
        den == max_pct * 100
    IN  IF num < MIN_ACTIVATION_TIME_S * den THEN MIN_ACTIVATION_TIME_S
        ELSE IF num > MAX_ACTIVATION_TIME_S * den THEN MAX_ACTIVATION_TIME_S
        ELSE RoundDiv(num, den)

\* note_order.get(note_type.lower(), 1)
NoteOrder(note_type) ==
    CASE LabelLower(note_type) = "base"   -> 0
      [] LabelLower(note_type) = "heart"  -> 1
      [] LabelLower(note_type) = "middle" -> 1
      [] LabelLower(note_type) = "top"    -> 2
      [] OTHER                            -> 1

\* the sort key order: (note order, -activation time)
StepBefore(a, b) ==
    \/ NoteOrder(a.note_type) < NoteOrder(b.note_type)
    \/ /\ NoteOrder(a.note_type) = NoteOrder(b.note_type)
       /\ a.activation_time_s > b.activation_time_s

\* list.sort: stable insertion of each step after the steps not after it
RECURSIVE InsertStep(_, _)
InsertStep(sorted, st) ==
    IF sorted = <<>> THEN <<st>>
    ELSE IF StepBefore(st, Head(sorted)) THEN <<st>> \o sorted
    ELSE <<Head(sorted)>> \o InsertStep(Tail(sorted), st)

RECURSIVE SortSteps(_, _)
SortSteps(steps, acc) ==
    IF steps = <<>> THEN acc
    ELSE SortSteps(Tail(steps), InsertStep(acc, Head(steps)))

RECURSIVE SumTimes(_)
SumTimes(steps) ==
    IF steps = <<>> THEN 0
    ELSE Head(steps).activation_time_s + SumTimes(Tail(steps))

\* the loop over aroma_ingredients: steps and skip records in formula order
RECURSIVE CompileLoop(_, _, _, _)
CompileLoop(aroma, i, max_pct, mult) ==
    IF i > Len(aroma) THEN [steps |-> <<>>, skipped |-> <<>>]
    ELSE LET item    == aroma[i]
             rest    == CompileLoop(aroma, i + 1, max_pct, mult)
             channel == find_channel_for_ingredient(item.name)
         IN  IF item.percentage <= 0 THEN rest
             ELSE IF channel = -1
             THEN [rest EXCEPT !.skipped =
                       <<[ingredient |-> item.name, percentage |-> item.percentage]>> \o @]
             ELSE [rest EXCEPT !.steps =
                       <<[ingredient |-> item.name,
                          channel |-> channel,
                          percentage |-> item.percentage,
                          activation_time_s |->
                              ActivationTime(item.percentage, max_pct, mult),
                          note_type |-> item.note_type]>> \o @]

\* the safety check on the total: every step scaled by ceiling/total and
\* rounded to 1/100 s
Rescale_Floor(steps) ==
    LET total == SumTimes(steps)
    IN  IF total > MAX_TOTAL_ACTIVATION_S
        THEN [i \in 1..Len(steps) |->
                 [steps[i] EXCEPT !.activation_time_s =
                     (steps[i].activation_time_s * MAX_TOTAL_ACTIVATION_S) \div total]]
        ELSE steps

Rescale(steps) ==
    LET total == SumTimes(steps)
    IN  IF total > MAX_TOTAL_ACTIVATION_S
        THEN [i \in 1..Len(steps) |->
                 [steps[i] EXCEPT !.activation_time_s =
                     RoundDiv(steps[i].activation_time_s * MAX_TOTAL_ACTIVATION_S, total)]]
        ELSE steps

\* ScentBlender.create_plan(formula, intensity)
create_plan(ingredients, intens) ==
    LET mult  == IF intens \in DOMAIN INTENSITY_PRESETS
                 THEN INTENSITY_PRESETS[intens]
                 ELSE INTENSITY_PRESETS[DEFAULT_INTENSITY]
        aroma == AromaIngredients(ingredients)
    IN  IF aroma = <<>>
        THEN [steps |-> <<>>, skipped |-> <<>>, total_activation_s |-> 0,
              intensity |-> intens]
        ELSE LET out    == CompileLoop(aroma, 1, MaxPct(aroma), mult)
                 sorted == SortSteps(out.steps, <<>>)
                 final  == Rescale(sorted)
             IN  [steps |-> final, skipped |-> out.skipped,
                  total_activation_s |-> SumTimes(final),
                  intensity |-> intens]

-----------------------------------------------------------------------------
(* The compile session                                                     *)

MaxIngredients == 9

\* the kinds of ingredient a formula is made of; `naming` tells which name
\* the ingredient carries: the name of a channel of its own (by position),
\* a name no channel has, or the name of the first channel again
IngredientKinds ==
    { [percentage |-> 100, note_type |-> "base",    category |-> "",        naming |-> "own"],
      [percentage |-> 100, note_type |-> "Top",     category |-> "",        naming |-> "own"],
      [percentage |-> 40,  note_type |-> "top",     category |-> "",        naming |-> "own"],
      [percentage |-> 1,   note_type |-> "heart",   category |-> "",        naming |-> "own"],
      [percentage |-> 0,   note_type |-> "heart",   category |-> "",        naming |-> "own"],
      [percentage |-> 30,  note_type |-> "Carrier", category |-> "",        naming |-> "own"],
      [percentage |-> 30,  note_type |-> "",        category |-> "carrier", naming |-> "own"],
      [percentage |-> 30,  note_type |-> "",        category |-> "solvent", naming |-> "own"],
      [percentage |-> 20,  note_type |-> "middle",  category |-> "",        naming |-> "unknown"],
      [percentage |-> 100, note_type |-> "heart",   category |-> "",        naming |-> "first"] }

NameAt(pos, naming) ==
    CASE naming = "own"     -> Lower(Registry[(pos - 1) % NUM_CHANNELS])
      [] naming = "unknown" -> <<63>>
      [] naming = "first"   -> Registry[0]

\* formula["ingredients"]: n1 ingredients of kind k1 followed by n2 of kind k2
Ingredients(k1, n1, k2, n2) ==
    [pos \in 1..(n1 + n2) |->
        LET k == IF pos <= n1 THEN k1 ELSE k2
        IN  [name |-> NameAt(pos, k.naming), percentage |-> k.percentage,
             note_type |-> k.note_type, category |-> k.category]]

IntensityNames == DOMAIN INTENSITY_PRESETS \cup {"loud"}

NoPlan == [steps |-> <<>>, skipped |-> <<>>, total_activation_s |-> 0, intensity |-> ""]

InitCompile ==
    /\ cphase = "idle"
    /\ formula = <<>>
    /\ intensity = ""
    /\ plan = NoPlan
    /\ cinfo = [rescaled |-> FALSE]

NoTransition == [from |-> <<>>, to |-> <<>>, steps |-> 0, intensity |-> "", up |-> FALSE]

ParkedTransition ==
    /\ tphase = "off"
    /\ tin = NoTransition
    /\ tplans = <<>>

ParkedCompile ==
    /\ cphase = "off"
    /\ formula = <<>>
    /\ intensity = ""
    /\ plan = NoPlan
    /\ cinfo = [rescaled |-> FALSE]

\* the steps as they stand before the safety check on the total
UnscaledSteps(ingredients, intens) ==
    LET mult  == IF intens \in DOMAIN INTENSITY_PRESETS
                 THEN INTENSITY_PRESETS[intens]
                 ELSE INTENSITY_PRESETS[DEFAULT_INTENSITY]
        aroma == AromaIngredients(ingredients)
    IN  IF aroma = <<>> THEN <<>>
        ELSE SortSteps(CompileLoop(aroma, 1, MaxPct(aroma), mult).steps, <<>>)

\* the compile session leaves the protocol and the scheduler alone
CompileFrame ==
    UNCHANGED <<resolveVars, protoVars, transVars, liquidVars, dispVars, execVars>>

\* a formula and an intensity preset are handed to the blender
LoadFormula ==
    /\ cphase = "idle"
    /\ \E k1 \in IngredientKinds, k2 \in IngredientKinds,
          n1 \in 1..MaxIngredients, n2 \in 0..MaxIngredients,
          intens \in IntensityNames :
          /\ n1 + n2 <= MaxIngredients
          /\ formula' = Ingredients(k1, n1, k2, n2)
          /\ intensity' = intens
    /\ cphase' = "loaded"
    /\ UNCHANGED <<plan, cinfo>>
    /\ CompileFrame

\* plan = blender.create_plan(formula, intensity)
CreatePlan ==
    /\ cphase = "loaded"
    /\ plan' = create_plan(formula, intensity)
    /\ cinfo' = [rescaled |->
           SumTimes(UnscaledSteps(formula, intensity)) > MAX_TOTAL_ACTIVATION_S]
    /\ cphase' = "compiled"
    /\ UNCHANGED <<formula, intensity>>
    /\ CompileFrame

NextCompile ==
    \/ LoadFormula
    \/ CreatePlan

-----------------------------------------------------------------------------
(* diffuser_controller.py: ScentBlender.create_transition_plans            *)

MaxFade  == 3
LongFade == 21

\* round(x, 2) of num/den in 1/100 s. A product that is a decimal tie is a
\* binary float just above or just below the tie, so it goes up or down.
RoundTie(num, den, up) ==
    LET q == num \div den
        r == num % den
    IN  IF 2 * r < den THEN q
        ELSE IF 2 * r > den THEN q + 1
        ELSE IF up THEN q + 1 ELSE q

\* AtomizeStep(...) of a step scaled by blend = bnum/bden; the percentage
\* becomes the fraction <<numerator, denominator>>
FadeStep(step, bnum, bden, up) ==
    [step EXCEPT !.percentage = <<@ * bnum, bden>>,
                 !.activation_time_s = RoundTie(@ * bnum, bden, up)]

FadeFrom_Inverse(steps, bnum, bden, up) ==
    IF 20 * bnum > bden
    THEN [k \in 1..Len(steps) |-> FadeStep(steps[k], bden - bnum, bden, up)]
    ELSE <<>>

\* the steps of plan_from scaled by blend_from = bnum/bden, none when
\* blend_from is not above 0.05
FadeFrom(steps, bnum, bden, up) ==
    IF 20 * bnum > bden
    THEN [k \in 1..Len(steps) |-> FadeStep(steps[k], bnum, bden, up)]
    ELSE <<>>

\* next((s for s in transition_plan.steps if s.channel == channel), None):
\* its index, 0 for None
Existing(acc, channel) ==
    IF \E k \in 1..Len(acc) : acc[k].channel = channel
    THEN CHOOSE k \in 1..Len(acc) :
            /\ acc[k].channel = channel
            /\ \A j \in 1..(k - 1) : acc[j].channel # channel
    ELSE 0

\* a loop that appends every to-step, whether its channel is there or not
RECURSIVE FadeTo_Append(_, _, _, _, _, _)
FadeTo_Append(acc, steps, i, bnum, bden, up) ==
    IF i > Len(steps) THEN acc
    ELSE IF 20 * bnum <= bden THEN acc
    ELSE FadeTo_Append(Append(acc, FadeStep(steps[i], bnum, bden, up)),
                       steps, i + 1, bnum, bden, up)

\* the loop over plan_to.steps from step i on: a step is added to the step
\* already on its channel, or appended, when blend_to is above 0.05
RECURSIVE FadeTo(_, _, _, _, _, _)
FadeTo(acc, steps, i, bnum, bden, up) ==
    IF i > Len(steps) THEN acc
    ELSE IF 20 * bnum <= bden THEN acc
    ELSE LET e == Existing(acc, steps[i].channel)
             scaled == RoundTie(steps[i].activation_time_s * bnum, bden, up)
         IN  FadeTo(IF e # 0
                    THEN [acc EXCEPT ![e].activation_time_s = @ + scaled]
                    ELSE Append(acc, FadeStep(steps[i], bnum, bden, up)),
                    steps, i + 1, bnum, bden, up)

\* plan i of the crossfade: the steps of at least MIN_ACTIVATION_TIME_S
TransitionPlan(plan_from, plan_to, i, n, intens, up) ==
    LET merged == FadeTo(FadeFrom(plan_from.steps, n - i, n, up),
                         plan_to.steps, 1, i, n, up)
        kept   == SelectSeq(merged,
                            LAMBDA st : st.activation_time_s >= MIN_ACTIVATION_TIME_S)
    IN  [steps |-> kept, skipped |-> <<>>, total_activation_s |-> SumTimes(kept),
         intensity |-> intens]

\* ScentBlender.create_transition_plans(formula_from, formula_to, steps,
\* intensity): plans 0..steps, here at indices 1..steps+1
create_transition_plans(formula_from, formula_to, n, intens, up) ==
    LET plan_from == create_plan(formula_from, intens)
        plan_to   == create_plan(formula_to, intens)
    IN  [j \in 1..(n + 1) |-> TransitionPlan(plan_from, plan_to, j - 1, n, intens, up)]

\* the formulas of the transition session: one or two ingredients, or a
\* formula whose total is rescaled
FadeKinds ==
    {k \in IngredientKinds :
        k.percentage > 0 /\ k.category = "" /\ k.note_type # "Carrier"}

FadeFormulas ==
    { Ingredients(k1, 1, k2, n2) : k1 \in FadeKinds, k2 \in FadeKinds, n2 \in 0..1 }
    \cup { Ingredients(k1, MaxIngredients - 1, k2, 1) :
              k1 \in {k \in IngredientKinds : k.percentage = 100 /\ k.naming = "own"},
              k2 \in {k \in IngredientKinds : k.percentage = 1} }

InitTransition ==
    /\ tphase = "idle"
    /\ tin = NoTransition
    /\ tplans = <<>>

TransitionFrame ==
    UNCHANGED <<resolveVars, protoVars, compileVars, liquidVars, dispVars, execVars>>

\* plans = blender.create_transition_plans(formula_from, formula_to, steps,
\* intensity)
CreateTransitionPlans ==
    /\ tphase = "idle"
    /\ \E f \in FadeFormulas, t \in FadeFormulas, n \in 1..MaxFade \cup {LongFade},
          intens \in {"whisper", "max"}, up \in BOOLEAN :
          /\ tin' = [from |-> f, to |-> t, steps |-> n, intensity |-> intens, up |-> up]
          /\ tplans' = create_transition_plans(f, t, n, intens, up)
    /\ tphase' = "done"
    /\ TransitionFrame

NextTransition == CreateTransitionPlans


-----------------------------------------------------------------------------
(* config.py: pump constants.  Percentages are in 1/10 %, total volumes in  *)
(* ml, volumes in 1/1000 ml, flow rates in 1/10 ml per minute,              *)
(* calibration factors in 1/10, durations in ms.                            *)

PUMP_NUM_CHANNELS      == 16
MIN_DISPENSE_VOLUME_ML == 10
MIN_PUMP_DURATION_MS   == 50
MAX_PUMP_DURATION_MS   == 300000
INTER_PUMP_DELAY_MS    == 200

\* HardwareConfig.channels, the ingredient names: channel c is named by the
\* c-th capital letter
PumpRegistry == [c \in 0..(PUMP_NUM_CHANNELS - 1) |-> <<65 + c>>]

\* HardwareConfig.find_channel_for_ingredient; -1 stands for None
pump_find_channel_for_ingredient(ingredient_name) ==
    FindChannel(PumpRegistry, Lower(ingredient_name))

\* ChannelConfig.effective_flow_rate(), in 1/100 ml per minute
effective_flow_rate(ch_config) ==
    ch_config.flow_rate_ml_per_min * ch_config.calibration_factor

-----------------------------------------------------------------------------
(* controller.py: PumpController.create_plan                               *)

\* int((volume_ml / flow_rate) * 60.0 * 1000.0) for a positive flow rate:
\* int() drops the fraction
RawDuration(volume_ml, flow_rate) == (volume_ml * 6000) \div flow_rate

\* a clamp without the ceiling
ClampDuration_NoCeiling(duration_ms) ==
    IF duration_ms < MIN_PUMP_DURATION_MS THEN MIN_PUMP_DURATION_MS ELSE duration_ms

\* the two clamping tests of create_plan, in their order
ClampDuration(duration_ms) ==
    LET d1 == IF duration_ms < MIN_PUMP_DURATION_MS THEN MIN_PUMP_DURATION_MS
              ELSE duration_ms
    IN  IF d1 > MAX_PUMP_DURATION_MS THEN MAX_PUMP_DURATION_MS ELSE d1

\* what the loop body records for an item nothing is emitted for
NoOutcome(outcome, reason) ==
    [outcome |-> outcome, reason |-> reason, channel |-> -1, volume_ml |-> 0,
     raw_ms |-> 0, duration_ms |-> 0]

\* a loop body that puts no floor under the volume
DispenseItem_NoMinimum(item, total, channels) ==
    LET volume_ml == item.percentage * total
        channel   == pump_find_channel_for_ingredient(item.name)
        ch_config == channels[channel]
        flow_rate == effective_flow_rate(ch_config)
        raw       == RawDuration(volume_ml, flow_rate)
    IN  IF item.percentage <= 0 THEN NoOutcome("none", "")
        ELSE IF channel = -1
        THEN NoOutcome("skip", "No pump channel assigned for this ingredient")
        ELSE IF volume_ml > ch_config.max_volume_ml
        THEN NoOutcome("skip", "Requested volume exceeds channel max")
        ELSE IF flow_rate <= 0
        THEN NoOutcome("skip", "Channel has zero or negative flow rate")
        ELSE [outcome |-> "step", reason |-> "", channel |-> channel,
              volume_ml |-> volume_ml, raw_ms |-> raw,
              duration_ms |-> ClampDuration(raw)]

\* the loop body of create_plan for one item: nothing, a skip, or a step
DispenseItem(item, total, channels) ==
    LET volume_ml == item.percentage * total
        channel   == pump_find_channel_for_ingredient(item.name)
        ch_config == channels[channel]
        flow_rate == effective_flow_rate(ch_config)
        raw       == RawDuration(volume_ml, flow_rate)
    IN  IF item.percentage <= 0 THEN NoOutcome("none", "")
        ELSE IF volume_ml < MIN_DISPENSE_VOLUME_ML
        THEN NoOutcome("skip", "Volume too small")
        ELSE IF channel = -1
        THEN NoOutcome("skip", "No pump channel assigned for this ingredient")
        ELSE IF volume_ml > ch_config.max_volume_ml
        THEN NoOutcome("skip", "Requested volume exceeds channel max")
        ELSE IF flow_rate <= 0
        THEN NoOutcome("skip", "Channel has zero or negative flow rate")
        ELSE [outcome |-> "step", reason |-> "", channel |-> channel,
              volume_ml |-> volume_ml, raw_ms |-> raw,
              duration_ms |-> ClampDuration(raw)]

\* per item of all_items, what the loop did with it
DispenseOutcomes(items, total, channels) ==
    [i \in 1..Len(items) |-> DispenseItem(items[i], total, channels)]

\* note_order.get(s.note_type, 2): the label is looked up as it is written
DispenseNoteOrder(note_type) ==
    CASE note_type = "carrier" -> 0
      [] note_type = "base"    -> 1
      [] note_type = "heart"   -> 2
      [] note_type = "top"     -> 3
      [] OTHER                 -> 2

DispenseBefore_ShortFirst(a, b) ==
    \/ DispenseNoteOrder(a.note_type) < DispenseNoteOrder(b.note_type)
    \/ /\ DispenseNoteOrder(a.note_type) = DispenseNoteOrder(b.note_type)
       /\ a.duration_ms < b.duration_ms

\* the sort key order: (note order, -duration_ms)
DispenseBefore(a, b) ==
    \/ DispenseNoteOrder(a.note_type) < DispenseNoteOrder(b.note_type)
    \/ /\ DispenseNoteOrder(a.note_type) = DispenseNoteOrder(b.note_type)
       /\ a.duration_ms > b.duration_ms

RECURSIVE InsertDispense(_, _)
InsertDispense(sorted, st) ==
    IF sorted = <<>> THEN <<st>>
    ELSE IF DispenseBefore(st, Head(sorted)) THEN <<st>> \o sorted
    ELSE <<Head(sorted)>> \o InsertDispense(Tail(sorted), st)

RECURSIVE SortDispense(_, _)
SortDispense(steps, acc) ==
    IF steps = <<>> THEN acc
    ELSE SortDispense(Tail(steps), InsertDispense(acc, Head(steps)))

RECURSIVE SumDurations(_)
SumDurations(steps) ==
    IF steps = <<>> THEN 0
    ELSE Head(steps).duration_ms + SumDurations(Tail(steps))

\* the steps and the skip records appended by the loop, in item order
RECURSIVE CollectDispense(_, _, _, _)
CollectDispense(items, outs, i, acc) ==
    IF i > Len(items) THEN acc
    ELSE LET o == outs[i]
             it == items[i]
         IN  CollectDispense(items, outs, i + 1,
               CASE o.outcome = "step" ->
                      [acc EXCEPT !.steps = Append(@,
                          [ingredient |-> it.name, channel |-> o.channel,
                           percentage |-> it.percentage, volume_ml |-> o.volume_ml,
                           duration_ms |-> o.duration_ms, note_type |-> it.note_type])]
                 [] o.outcome = "skip" ->
                      [acc EXCEPT !.skipped = Append(@,
                          [ingredient |-> it.name, reason |-> o.reason,
                           percentage |-> it.percentage])]
                 [] OTHER -> acc)

\* PumpController.create_plan(formula, total_volume_ml), from all_items on
pump_create_plan(items, total, channels) ==
    LET got   == CollectDispense(items, DispenseOutcomes(items, total, channels),
                                 1, [steps |-> <<>>, skipped |-> <<>>])
        steps == SortDispense(got.steps, <<>>)
        gaps  == IF Len(steps) > 1 THEN Len(steps) - 1 ELSE 0
    IN  [total_volume_ml |-> total, steps |-> steps, skipped |-> got.skipped,
         estimated_time_ms |-> SumDurations(steps) + INTER_PUMP_DELAY_MS * gaps]

-----------------------------------------------------------------------------
(* The liquid compile session                                              *)

MaxItems == 2

\* the kinds of item a formula holds; `naming` as for the atomizer formulas
LiquidKinds ==
    { [percentage |-> 500, note_type |-> "top",   naming |-> "own"],
      [percentage |-> 50,  note_type |-> "base",  naming |-> "own"],
      [percentage |-> 1,   note_type |-> "heart", naming |-> "own"],
      [percentage |-> 0,   note_type |-> "heart", naming |-> "own"],
      [percentage |-> 500, note_type |-> "Heart", naming |-> "unknown"],
      [percentage |-> 2,   note_type |-> "",      naming |-> "own"],
      [percentage |-> 100, note_type |-> "middle", naming |-> "own"] }

\* formula["carrier"]: absent, or a carrier on the first channel at 80 %
CarrierChoices == {"none", "ethanol"}

TotalVolumes == {1, 5, 100}

\* channel configurations: flow_rate_ml_per_min, max_volume_ml, calibration_factor
PumpProfiles ==
    { [flow_rate_ml_per_min |-> 25, max_volume_ml |-> 5000,  calibration_factor |-> 10],
      [flow_rate_ml_per_min |-> 50, max_volume_ml |-> 50000, calibration_factor |-> 10],
      [flow_rate_ml_per_min |-> 25, max_volume_ml |-> 10000, calibration_factor |-> 11],
      [flow_rate_ml_per_min |-> 50, max_volume_ml |-> 50000, calibration_factor |-> 30],
      [flow_rate_ml_per_min |-> 25, max_volume_ml |-> 5000,  calibration_factor |-> 0],
      [flow_rate_ml_per_min |-> 25, max_volume_ml |-> 5000,  calibration_factor |-> -10] }

PumpNameAt(pos, naming) ==
    CASE naming = "own"     -> Lower(PumpRegistry[(pos - 1) % PUMP_NUM_CHANNELS])
      [] naming = "unknown" -> <<63>>

\* all_items: the ingredients, then the carrier if the formula has one
AllItems(kinds, carrier) ==
    [pos \in 1..Len(kinds) |->
        [name |-> PumpNameAt(pos, kinds[pos].naming),
         percentage |-> kinds[pos].percentage,
         note_type |-> kinds[pos].note_type]]
    \o (IF carrier = "ethanol"
        THEN <<[name |-> PumpRegistry[0], percentage |-> 800, note_type |-> "carrier"]>>
        ELSE <<>>)

NoDispensePlan == [total_volume_ml |-> 0, steps |-> <<>>, skipped |-> <<>>,
                   estimated_time_ms |-> 0]

InitLiquid ==
    /\ lphase = "idle"
    /\ lformula = <<>>
    /\ total_volume_ml = 0
    /\ pumps \in { [c \in DOMAIN PumpRegistry |-> pr] : pr \in PumpProfiles }
    /\ dplan = NoDispensePlan
    /\ dinfo = <<>>

ParkedLiquid ==
    /\ lphase = "off"
    /\ lformula = <<>>
    /\ total_volume_ml = 0
    /\ pumps = <<>>
    /\ dplan = NoDispensePlan
    /\ dinfo = <<>>

\* the liquid compile session leaves the other sessions alone
LiquidFrame ==
    UNCHANGED <<resolveVars, protoVars, compileVars, transVars, dispVars, execVars>>

\* a formula and a total volume are handed to the pump controller
LoadLiquidFormula ==
    /\ lphase = "idle"
    /\ \E n \in 1..MaxItems, carrier \in CarrierChoices, total \in TotalVolumes :
          \E kinds \in [1..n -> LiquidKinds] :
             /\ lformula' = AllItems(kinds, carrier)
             /\ total_volume_ml' = total
    /\ lphase' = "loaded"
    /\ UNCHANGED <<pumps, dplan, dinfo>>
    /\ LiquidFrame

\* plan = pump_controller.create_plan(formula, total_volume_ml)
CreateDispensePlan ==
    /\ lphase = "loaded"
    /\ dplan' = pump_create_plan(lformula, total_volume_ml, pumps)
    /\ dinfo' = DispenseOutcomes(lformula, total_volume_ml, pumps)
    /\ lphase' = "compiled"
    /\ UNCHANGED <<lformula, total_volume_ml, pumps>>
    /\ LiquidFrame

NextLiquid ==
    \/ LoadLiquidFormula
    \/ CreateDispensePlan

-----------------------------------------------------------------------------
(* controller.py: ScentDispenser.execute                                   *)

MaxPumps == 2

\* plans handed to execute(): n steps, step i on channel i-1 for 50*i ms
DispensePlans ==
    { [i \in 1..n |-> [channel |-> i - 1, duration_ms |-> MIN_PUMP_DURATION_MS * i]] :
        n \in 0..MaxPumps }

\* the Responses self.serial.send(command_raw) can return
Exchanges(command_raw) ==
    { Send(command_raw, w, r,
           CASE r = "line"    -> reply \o COMMAND_TERMINATOR
             [] r = "partial" -> SubSeq(reply, 1, 2)
             [] OTHER         -> <<>>) :
        w \in WriteOutcomes, r \in ReadOutcomes, reply \in DeviceReplies }

NoDispenseHist ==
    [interrupted |-> "", pump_failed |-> 0, wait_failed |-> 0, unanswered |-> FALSE]

InitDispense ==
    /\ pphase = "off"
    /\ cmd = Rejected
    /\ line = <<>>
    /\ lineinfo = NoInfo
    /\ verdict = FALSE
    /\ resp = NoResponse
    /\ serial \in [simulate : BOOLEAN, open : {FALSE}]
    /\ dpc = "idle"
    /\ xsteps = <<>>
    /\ dnext = 0
    /\ wire = <<>>
    /\ dsuccess = FALSE
    /\ dhist = NoDispenseHist

ParkedDispense ==
    /\ dpc = "off"
    /\ xsteps = <<>>
    /\ dnext = 0
    /\ wire = <<>>
    /\ dsuccess = FALSE
    /\ dhist = NoDispenseHist

\* the dispenser leaves the builder session, the compilers and the
\* scheduler alone
DispenseFrame ==
    UNCHANGED <<pphase, cmd, line, lineinfo, verdict, resolveVars, compileVars, transVars,
                liquidVars, execVars>>

\* execute(plan): if not plan.steps: return False
DispenseCall ==
    /\ dpc = "idle"
    /\ \E p \in DispensePlans :
          /\ xsteps' = p
          /\ dpc' = IF p = <<>> THEN "returned" ELSE "connect"
    /\ dsuccess' = FALSE
    /\ UNCHANGED <<dnext, wire, dhist, resp, serial>>
    /\ DispenseFrame

\* if not self.serial.connect(): return False; success = True
DispenseConnect ==
    /\ dpc = "connect"
    /\ \E opened \in BOOLEAN :
          /\ serial.simulate => opened
          /\ serial' = [serial EXCEPT !.open = opened /\ ~serial.simulate]
          /\ dpc' = IF opened THEN "start" ELSE "returned"
          /\ dsuccess' = opened
    /\ UNCHANGED <<xsteps, dnext, wire, dhist, resp>>
    /\ DispenseFrame

\* resp = self.serial.send(CommandBuilder.start().raw), return False inside
\* the try block when it failed
DispenseStart ==
    /\ dpc = "start"
    /\ resp' \in Exchanges(BuildStart.raw)
    /\ wire' = Append(wire, [NoCall EXCEPT !.verb = "START"])
    /\ dpc' = IF resp'.success THEN "pump" ELSE "finally"
    /\ dsuccess' = resp'.success
    /\ dnext' = 1
    /\ UNCHANGED <<xsteps, dhist, serial>>
    /\ DispenseFrame

\* a loop that goes on after a failed PUMP
AfterPump_GoesOn(ok) == "wait"

\* if not resp.success: return False, and in execute(): if not ok: break;
\* otherwise the WAIT command follows
AfterPump(ok) == IF ok THEN "wait" ELSE "stop"

\* _execute_step(step): the PUMP command; on a failed response the loop is
\* left with success = False
DispensePump ==
    /\ dpc = "pump"
    /\ LET call == [verb |-> "PUMP", channel |-> xsteps[dnext].channel,
                    ms |-> xsteps[dnext].duration_ms]
       IN  /\ resp' \in Exchanges(CallBuilder(call).raw)
           /\ wire' = Append(wire, call)
    /\ dpc' = AfterPump(resp'.success)
    /\ dsuccess' = resp'.success
    /\ dhist' = IF resp'.success THEN dhist ELSE [dhist EXCEPT !.pump_failed = dnext]
    /\ UNCHANGED <<xsteps, dnext, serial>>
    /\ DispenseFrame

AfterWait_Checked(ok, more) == IF ok /\ more THEN "pump" ELSE "stop"

\* self.serial.send(wait_cmd.raw); return True: the response is dropped, the
\* loop goes to the next step when there is one
AfterWait(ok, more) == IF more THEN "pump" ELSE "stop"

\* _execute_step(step): the inter-pump WAIT command, its response unread;
\* then the next step of the loop
DispenseWait ==
    /\ dpc = "wait"
    /\ LET call == [NoCall EXCEPT !.verb = "WAIT", !.ms = INTER_PUMP_DELAY_MS]
       IN  /\ resp' \in Exchanges(CallBuilder(call).raw)
           /\ wire' = Append(wire, call)
    /\ dnext' = dnext + 1
    /\ dpc' = AfterWait(resp'.success, dnext < Len(xsteps))
    /\ dhist' = IF resp'.success THEN dhist ELSE [dhist EXCEPT !.wait_failed = dnext]
    /\ UNCHANGED <<xsteps, dsuccess, serial>>
    /\ DispenseFrame

\* resp = self.serial.send(CommandBuilder.stop().raw) after the loop
DispenseStop ==
    /\ dpc = "stop"
    /\ resp' \in Exchanges(BuildStop.raw)
    /\ wire' = Append(wire, [NoCall EXCEPT !.verb = "STOP"])
    /\ dpc' = "finally"
    /\ UNCHANGED <<xsteps, dnext, dsuccess, dhist, serial>>
    /\ DispenseFrame

\* the command that execute() sends next
CurrentCall ==
    CASE dpc = "start" -> [NoCall EXCEPT !.verb = "START"]
      [] dpc = "pump"  -> [verb |-> "PUMP", channel |-> xsteps[dnext].channel,
                           ms |-> xsteps[dnext].duration_ms]
      [] dpc = "wait"  -> [NoCall EXCEPT !.verb = "WAIT", !.ms = INTER_PUMP_DELAY_MS]
      [] dpc = "stop"  -> [NoCall EXCEPT !.verb = "STOP"]

\* a KeyboardInterrupt reaches the thread: in connect() it leaves execute(),
\* in the try block it enters the except clause, in the finally block it
\* leaves execute(). In the try block it can arrive between two commands or
\* inside send(), after the command was written and before readline()
\* returned; send() catches Exception only, so it does not return a Response
DispenseInterrupt ==
    /\ dhist.interrupted = ""
    /\ dpc \in {"connect", "start", "pump", "wait", "stop", "finally"}
    /\ dpc' = CASE dpc = "connect" -> "raised"
                [] dpc = "finally" -> "raised"
                [] OTHER           -> "except"
    /\ \E in_send \in BOOLEAN :
          /\ in_send => (dpc \in {"start", "pump", "wait", "stop"} /\ serial.open)
          /\ wire' = IF in_send THEN Append(wire, CurrentCall) ELSE wire
          /\ dhist' = [dhist EXCEPT !.interrupted = dpc, !.unanswered = in_send]
    /\ UNCHANGED <<xsteps, dnext, dsuccess, resp, serial>>
    /\ DispenseFrame

\* except KeyboardInterrupt: self.serial.send(CommandBuilder.stop().raw),
\* success = False
DispenseExcept ==
    /\ dpc = "except"
    /\ resp' \in Exchanges(BuildStop.raw)
    /\ wire' = Append(wire, [NoCall EXCEPT !.verb = "STOP"])
    /\ dsuccess' = FALSE
    /\ dpc' = "finally"
    /\ UNCHANGED <<xsteps, dnext, dhist, serial>>
    /\ DispenseFrame

\* finally: self.serial.disconnect(); return success
DispenseFinally ==
    /\ dpc = "finally"
    /\ serial' = [serial EXCEPT !.open = FALSE]
    /\ dpc' = "returned"
    /\ UNCHANGED <<xsteps, dnext, wire, dsuccess, dhist, resp>>
    /\ DispenseFrame

NextDispense ==
    \/ DispenseCall
    \/ DispenseConnect
    \/ DispenseStart
    \/ DispensePump
    \/ DispenseWait
    \/ DispenseStop
    \/ DispenseInterrupt
    \/ DispenseExcept
    \/ DispenseFinally

-----------------------------------------------------------------------------
(* diffuser_controller.py: DiffuserController, AtomizerChannel             *)

MaxSteps   == 9
SmallSteps == 3
MaxRuns    == 2
MaxClock   == 7

COOLDOWN_BETWEEN_RUNS_S == 5

\* DiffuserController.channels, built from the 16-channel configuration
Channels == 0..(NUM_CHANNELS - 1)

\* AtomizerChannel.activate(duration_s): the time the output stays on, for a
\* channel configured with the default max_activation_s
Clamped(duration_s) ==
    LET capped == IF duration_s < MAX_ACTIVATION_TIME_S
                  THEN duration_s ELSE MAX_ACTIVATION_TIME_S
    IN  IF MIN_ACTIVATION_TIME_S > capped THEN MIN_ACTIVATION_TIME_S ELSE capped

\* the time the channels are energized by a run that activates every step
\* of the plan: steps on a channel the controller does not have are passed
\* over
RECURSIVE Applied(_)
Applied(steps) ==
    IF steps = <<>> THEN 0
    ELSE (IF Head(steps).channel \in Channels
          THEN Clamped(Head(steps).activation_time_s) ELSE 0)
         + Applied(Tail(steps))

\* plans handed to execute(): nb base steps, nh heart steps, nt top steps in
\* the order create_plan leaves them, step i on channel i-1. Every split of
\* up to SmallSteps steps, and single-layer plans of up to MaxSteps steps.
PlanShapes ==
    { sh \in (0..SmallSteps) \X (0..SmallSteps) \X (0..SmallSteps) :
          sh[1] + sh[2] + sh[3] <= SmallSteps }
    \cup { <<0, n, 0>> : n \in 0..MaxSteps }

\* activation times that create_plan produces: the maximum, a rescaled time
\* below the minimum, a rescaled time in between
PlanTimes == <<MAX_ACTIVATION_TIME_S, MIN_ACTIVATION_TIME_S - 7, 667>>

\* the note types that create_plan sorts into its middle block
HeartTypes == <<"heart", "middle", "">>

PlanOf(sh) ==
    [i \in 1..(sh[1] + sh[2] + sh[3]) |->
        [channel   |-> i - 1,
         activation_time_s |-> PlanTimes[((i - 1) % Len(PlanTimes)) + 1],
         note_type |-> IF i <= sh[1] THEN (IF i % 2 = 1 THEN "base" ELSE "Base")
                       ELSE IF i <= sh[1] + sh[2]
                       THEN HeartTypes[((i - sh[1] - 1) % Len(HeartTypes)) + 1]
                       ELSE "top"]]

BlendModes == {BLEND_MODE_SIMULTANEOUS, BLEND_MODE_SEQUENTIAL, BLEND_MODE_LAYERED}

\* the batching loop of _execute_simultaneous, over step indices from..n
RECURSIVE Batches(_, _)
Batches(from, n) ==
    IF from > n THEN <<>>
    ELSE IF n - from + 1 >= MAX_SIMULTANEOUS_CHANNELS
    THEN <<[k \in 1..MAX_SIMULTANEOUS_CHANNELS |-> from + k - 1]>>
         \o Batches(from + MAX_SIMULTANEOUS_CHANNELS, n)
    ELSE <<[k \in 1..(n - from + 1) |-> from + k - 1]>>

LayerKey_Raw(st) ==
    IF st.note_type \in {"base", "heart", "middle", "top"}
    THEN st.note_type
    ELSE "heart"

\* the key of the layers dict a step is appended to
LayerKey(st) ==
    IF LabelLower(st.note_type) \in {"base", "heart", "middle", "top"}
    THEN LabelLower(st.note_type)
    ELSE "heart"

\* layers[key]: the step indices of p, in plan order, appended under key
RECURSIVE LayerSteps(_, _, _)
LayerSteps(p, i, key) ==
    IF i > Len(p) THEN <<>>
    ELSE (IF LayerKey(p[i]) = key THEN <<i>> ELSE <<>>) \o LayerSteps(p, i + 1, key)

\* the layers of _execute_layered in layer_order, middle merged into heart;
\* empty layers are passed over
Layers(p) ==
    LET all == << LayerSteps(p, 1, "base"),
                  LayerSteps(p, 1, "heart") \o LayerSteps(p, 1, "middle"),
                  LayerSteps(p, 1, "top") >>
    IN  SelectSeq(all, LAMBDA l : l # <<>>)

GroupsOf_Batched(p, mode) ==
    IF mode = BLEND_MODE_LAYERED THEN Layers(p) ELSE Batches(1, Len(p))

\* the groups of steps the blend algorithm runs one after the other: the
\* steps of one group are activated together, the next group only after
\* every thread of the group has been joined
GroupsOf(p, mode) ==
    IF mode = BLEND_MODE_SEQUENTIAL THEN [i \in 1..Len(p) |-> <<i>>]
    ELSE IF mode = BLEND_MODE_LAYERED THEN Layers(p)
    ELSE Batches(1, Len(p))

NumActive == Cardinality({c \in Channels : active[c]})

\* no call of execute_transition() has been made
NoTransitionRun ==
    [on |-> FALSE, plans |-> <<>>, i |-> 0, old_mode |-> "", before |-> "",
     interrupted |-> ""]

InitExecute ==
    /\ xplan = <<>>
    /\ blend_mode \in BlendModes
    /\ mainpc = "idle"
    /\ groups = <<>>
    /\ started = 0
    /\ thr = <<>>
    /\ active = [c \in Channels |-> FALSE]
    /\ fan = FALSE
    /\ running = FALSE
    /\ success = FALSE
    /\ estop = [pc |-> "idle", next |-> 0]
    /\ current_plan = <<>>
    /\ now = 1
    /\ last_run_time = 0
    /\ wake = 0
    /\ hist = [stopped |-> FALSE, calls |-> 0, waited |-> FALSE, aborted |-> FALSE,
               interrupt |-> ""]
    /\ trun = NoTransitionRun

ParkedExecute ==
    /\ xplan = <<>>
    /\ blend_mode = BLEND_MODE_SIMULTANEOUS
    /\ mainpc = "off"
    /\ groups = <<>>
    /\ started = 0
    /\ thr = <<>>
    /\ active = [c \in Channels |-> FALSE]
    /\ fan = FALSE
    /\ running = FALSE
    /\ success = FALSE
    /\ estop = [pc |-> "off", next |-> 0]
    /\ current_plan = <<>>
    /\ now = 1
    /\ last_run_time = 0
    /\ wake = 0
    /\ hist = [stopped |-> FALSE, calls |-> 0, waited |-> FALSE, aborted |-> FALSE,
               interrupt |-> ""]
    /\ trun = NoTransitionRun

\* the scheduler leaves the protocol and the compiler alone
SchedulerFrame ==
    UNCHANGED <<resolveVars, protoVars, compileVars, transVars, liquidVars, dispVars>>

\* execute() and the activation threads leave the locals of
\* execute_transition() alone
ExecuteFrame ==
    /\ SchedulerFrame
    /\ UNCHANGED trun

\* a plan that is never empty
NothingToDo_Never(p) == FALSE

\* if not plan.steps
NothingToDo(p) == p = <<>>

\* if elapsed < COOLDOWN_BETWEEN_RUNS_S and self._last_run_time > 0
CooldownDue(elapsed, last) == elapsed < COOLDOWN_BETWEEN_RUNS_S /\ last > 0

\* the wait measured from the start of the clock
CooldownWait_Absolute(elapsed) == COOLDOWN_BETWEEN_RUNS_S - 1

\* wait = COOLDOWN_BETWEEN_RUNS_S - elapsed
CooldownWait(elapsed) == COOLDOWN_BETWEEN_RUNS_S - elapsed

\* execute(p) up to the try block: the empty-plan return; the cooldown
\* check, where time.sleep(wait) is entered; or _current_plan = plan,
\* _running = True, success = True
Enter(p) ==
    /\ xplan' = p
    /\ thr' = [i \in 1..Len(p) |-> "idle"]
    /\ hist' = [hist EXCEPT !.calls = @ + 1, !.interrupt = ""]
    /\ IF NothingToDo(p)
       THEN /\ mainpc' = "returned"
            /\ success' = FALSE
            /\ UNCHANGED <<running, wake, current_plan>>
       ELSE IF CooldownDue(now - last_run_time, last_run_time)
       THEN /\ mainpc' = "cooldown"
            /\ wake' = now + CooldownWait(now - last_run_time)
            /\ UNCHANGED <<running, success, current_plan>>
       ELSE /\ mainpc' = "begun"
            /\ current_plan' = p
            /\ success' = TRUE
            /\ running' = TRUE
            /\ UNCHANGED wake
    /\ UNCHANGED <<blend_mode, groups, started, active, fan, estop, now, last_run_time>>
    /\ ExecuteFrame

\* the first execute(plan) on the controller
ExecuteCall ==
    /\ mainpc = "idle"
    /\ \E sh \in PlanShapes : Enter(PlanOf(sh))

\* a later execute(plan), after the run before it has returned and its
\* threads have ended: the same plan again, a one-step plan or an empty one
\* (explored after the runs of plans with at most SmallSteps steps)
ExecuteAgain ==
    /\ mainpc = "returned"
    /\ hist.calls < MaxRuns
    /\ Len(xplan) <= SmallSteps
    /\ \A i \in 1..Len(xplan) : thr[i] \notin {"started", "on"}
    /\ \E p \in {xplan, PlanOf(<<0, 1, 0>>), <<>>} : Enter(p)

\* time.sleep(wait) returns, not before the wait is over; then
\* _current_plan = plan, _running = True, success = True
CooldownElapsed ==
    /\ mainpc = "cooldown"
    /\ now >= wake
    /\ mainpc' = "begun"
    /\ current_plan' = xplan
    /\ success' = TRUE
    /\ running' = TRUE
    /\ hist' = [hist EXCEPT !.waited = TRUE]
    /\ UNCHANGED <<xplan, blend_mode, groups, started, thr, active, fan, estop,
                   timeVars>>
    /\ ExecuteFrame

\* KeyboardInterrupt during time.sleep(wait), outside the try block: the
\* exception leaves execute()
CooldownInterrupted ==
    /\ mainpc = "cooldown"
    /\ mainpc' = "returned"
    /\ hist' = [hist EXCEPT !.aborted = TRUE, !.interrupt = "raised"]
    /\ UNCHANGED <<xplan, blend_mode, groups, started, thr, active, fan, running,
                   success, estop, timeVars>>
    /\ UNCHANGED current_plan
    /\ ExecuteFrame

\* self.fan.on(speed=0.7), the spin-up sleep and the dispatch on blend_mode
FanOn ==
    /\ mainpc = "begun"
    /\ fan' = TRUE
    /\ groups' = GroupsOf(xplan, blend_mode)
    /\ started' = 0
    /\ mainpc' = "blend"
    /\ UNCHANGED <<xplan, blend_mode, thr, active, running, success, estop, hist>>
    /\ UNCHANGED timeVars
    /\ UNCHANGED current_plan
    /\ ExecuteFrame

\* the next step of the current group: activate_nonblocking (a thread is
\* started) or, in sequential mode, the call of activate; a step whose
\* channel the controller does not have is passed over
StartActivation ==
    /\ mainpc = "blend"
    /\ groups # <<>>
    /\ started < Len(Head(groups))
    /\ LET i == Head(groups)[started + 1]
       IN  thr' = [thr EXCEPT ![i] = IF xplan[i].channel \in Channels
                                     THEN "started" ELSE "skipped"]
    /\ started' = started + 1
    /\ UNCHANGED <<xplan, blend_mode, mainpc, groups, active, fan, running, success,
                   estop, hist>>
    /\ UNCHANGED timeVars
    /\ UNCHANGED current_plan
    /\ ExecuteFrame

\* AtomizerChannel.activate, first locked section: _active = True, output on
ActivateOn(i) ==
    /\ thr[i] = "started"
    /\ active' = [active EXCEPT ![xplan[i].channel] = TRUE]
    /\ thr' = [thr EXCEPT ![i] = "on"]
    /\ UNCHANGED <<xplan, blend_mode, mainpc, groups, started, fan, running, success,
                   estop, hist>>
    /\ UNCHANGED timeVars
    /\ UNCHANGED current_plan
    /\ ExecuteFrame

\* AtomizerChannel.activate after the sleep: _active = False, output off
ActivateOff(i) ==
    /\ thr[i] = "on"
    /\ active' = [active EXCEPT ![xplan[i].channel] = FALSE]
    /\ thr' = [thr EXCEPT ![i] = "done"]
    /\ UNCHANGED <<xplan, blend_mode, mainpc, groups, started, fan, running, success,
                   estop, hist>>
    /\ UNCHANGED timeVars
    /\ UNCHANGED current_plan
    /\ ExecuteFrame

JoinTimeout_Short(activation_time_s) == activation_time_s - 500

\* t.join(timeout=step.activation_time_s + 5.0)
JoinTimeout(activation_time_s) == activation_time_s + 500

\* t.join(...) returns: the thread has ended, or the timeout is shorter than
\* the time the thread's activation sleeps (a started thread is taken to
\* run without further delay)
Joined(i) ==
    \/ thr[i] \in {"done", "skipped"}
    \/ /\ blend_mode # BLEND_MODE_SEQUENTIAL
       /\ JoinTimeout(xplan[i].activation_time_s) < Clamped(xplan[i].activation_time_s)

\* every thread of the current group has been joined (in sequential mode:
\* activate has returned); the pause, then the next group
JoinGroup ==
    /\ mainpc = "blend"
    /\ groups # <<>>
    /\ started = Len(Head(groups))
    /\ \A k \in 1..Len(Head(groups)) : Joined(Head(groups)[k])
    /\ groups' = Tail(groups)
    /\ started' = 0
    /\ UNCHANGED <<xplan, blend_mode, mainpc, thr, active, fan, running, success,
                   estop, hist>>
    /\ UNCHANGED timeVars
    /\ UNCHANGED current_plan
    /\ ExecuteFrame

\* the blend algorithm returned True; time.sleep(1.0); self.fan.off()
FanOff ==
    /\ mainpc = "blend"
    /\ ~trun.on
    /\ groups = <<>>
    /\ fan' = FALSE
    /\ mainpc' = "finally"
    /\ UNCHANGED <<xplan, blend_mode, groups, started, thr, active, running, success,
                   estop, hist>>
    /\ UNCHANGED timeVars
    /\ UNCHANGED current_plan
    /\ ExecuteFrame

\* finally: _running = False (and the time stamp); return success
ExecuteReturn ==
    /\ mainpc = "finally"
    /\ running' = FALSE
    /\ last_run_time' = now
    /\ mainpc' = "returned"
    /\ UNCHANGED <<xplan, blend_mode, groups, started, thr, active, fan, success,
                   estop, now, wake, hist>>
    /\ UNCHANGED current_plan
    /\ ExecuteFrame

\* except KeyboardInterrupt: emergency_stop(), success = False. In
\* sequential mode the interrupted activate() call is gone with it; in the
\* other modes the activation threads of the current group go on.
\* (Explored in the runs of plans with at most SmallSteps steps.)
KeyboardInterrupt ==
    /\ mainpc \in {"begun", "blend"}
    /\ ~trun.on
    /\ Len(xplan) <= SmallSteps
    /\ active' = [c \in Channels |-> FALSE]
    /\ fan' = FALSE
    /\ running' = FALSE
    /\ success' = FALSE
    /\ thr' = IF blend_mode = BLEND_MODE_SEQUENTIAL
              THEN [i \in 1..Len(xplan) |->
                       IF thr[i] \in {"started", "on"} THEN "done" ELSE thr[i]]
              ELSE thr
    /\ groups' = <<>>
    /\ started' = 0
    /\ mainpc' = "finally"
    /\ hist' = [hist EXCEPT !.aborted = TRUE, !.interrupt = "caught"]
    /\ UNCHANGED <<xplan, blend_mode, estop, timeVars>>
    /\ UNCHANGED current_plan
    /\ ExecuteFrame

\* a second passes; the clock is read at the entry of execute() and at its
\* finally block only, so time is advanced between runs and during the
\* cooldown sleep
Tick ==
    /\ mainpc \in {"returned", "cooldown"}
    /\ now < MaxClock
    /\ now' = now + 1
    /\ UNCHANGED <<xplan, blend_mode, mainpc, groups, started, thr, active, fan,
                   running, success, estop, last_run_time, wake, hist>>
    /\ UNCHANGED current_plan
    /\ ExecuteFrame

\* a run of execute() is between its call and its return
InRun == mainpc \in {"begun", "blend", "finally"}

\* the channels some step of the plan is run on
UsedChannels == {xplan[i].channel : i \in 1..Len(xplan)} \cap Channels

\* the channels emergency_stop() has still to switch off after channel c,
\* leaving out those no step uses: off() on such a channel changes nothing
\* and is merged into the step before it
UsedAfter(c) == {d \in UsedChannels : d > c}

MinOf(S) == CHOOSE x \in S : \A y \in S : x <= y

\* emergency_stop() is entered on a separate control path at any point of a
\* run (explored in the runs of plans with at most SmallSteps steps)
EmergencyStopCall ==
    /\ estop.pc = "idle"
    /\ InRun
    /\ Len(xplan) <= SmallSteps
    /\ estop' = [pc |-> "channels",
                 next |-> IF UsedChannels = {} THEN 0 ELSE MinOf(UsedChannels)]
    /\ hist' = [hist EXCEPT !.stopped = TRUE]
    /\ UNCHANGED <<xplan, blend_mode, mainpc, groups, started, thr, active, fan,
                   running, success>>
    /\ UNCHANGED timeVars
    /\ UNCHANGED current_plan
    /\ ExecuteFrame

\* emergency_stop(): ch.off() for the next channel of self.channels
EmergencyStopChannel ==
    /\ estop.pc = "channels"
    /\ active' = [active EXCEPT ![estop.next] = FALSE]
    /\ estop' = IF UsedAfter(estop.next) # {}
                THEN [estop EXCEPT !.next = MinOf(UsedAfter(estop.next))]
                ELSE [pc |-> "fan", next |-> 0]
    /\ UNCHANGED <<xplan, blend_mode, mainpc, groups, started, thr, fan, running,
                   success, hist>>
    /\ UNCHANGED timeVars
    /\ UNCHANGED current_plan
    /\ ExecuteFrame

\* emergency_stop(): self.fan.off()
EmergencyStopFan ==
    /\ estop.pc = "fan"
    /\ fan' = FALSE
    /\ estop' = [estop EXCEPT !.pc = "running"]
    /\ UNCHANGED <<xplan, blend_mode, mainpc, groups, started, thr, active, running,
                   success, hist>>
    /\ UNCHANGED timeVars
    /\ UNCHANGED current_plan
    /\ ExecuteFrame

\* emergency_stop(): self._running = False, and the return
EmergencyStopReturn ==
    /\ estop.pc = "running"
    /\ running' = FALSE
    /\ estop' = [estop EXCEPT !.pc = "returned"]
    /\ UNCHANGED <<xplan, blend_mode, mainpc, groups, started, thr, active, fan,
                   success, hist>>
    /\ UNCHANGED timeVars
    /\ UNCHANGED current_plan
    /\ ExecuteFrame

NextExecute ==
    \/ ExecuteCall
    \/ FanOn
    \/ StartActivation
    \/ \E i \in 1..Len(xplan) : ActivateOn(i)
    \/ \E i \in 1..Len(xplan) : ActivateOff(i)
    \/ JoinGroup
    \/ FanOff
    \/ ExecuteReturn
    \/ EmergencyStopCall
    \/ EmergencyStopChannel
    \/ EmergencyStopFan
    \/ EmergencyStopReturn

\* execute() called again on the same controller, keyboard interrupts, time
NextCooldown ==
    \/ ExecuteCall
    \/ ExecuteAgain
    \/ CooldownElapsed
    \/ CooldownInterrupted
    \/ FanOn
    \/ StartActivation
    \/ \E i \in 1..Len(xplan) : ActivateOn(i)
    \/ \E i \in 1..Len(xplan) : ActivateOff(i)
    \/ JoinGroup
    \/ FanOff
    \/ KeyboardInterrupt
    \/ ExecuteReturn
    \/ Tick

-----------------------------------------------------------------------------
(* DiffuserController.execute_transition                                   *)

TRANSITION_STEPS == 10

\* the formulas handed to execute_transition(): one ingredient each
TransitionFormulas == {f \in FadeFormulas : Len(f) = 1}

\* execute_transition(formula_from, formula_to, intensity): the plans
\* are compiled, self.fan.on(speed=0.5), the spin-up sleep
TransitionCall ==
    /\ mainpc = "idle"
    /\ \E f \in TransitionFormulas, t \in TransitionFormulas,
          intens \in {"whisper", "max"}, up \in BOOLEAN :
          trun' = [on |-> TRUE,
                   plans |-> create_transition_plans(f, t, TRANSITION_STEPS, intens, up),
                   i |-> 1, old_mode |-> "", before |-> blend_mode,
                   interrupted |-> ""]
    /\ fan' = TRUE
    /\ mainpc' = "loop"
    /\ UNCHANGED <<xplan, blend_mode, groups, started, thr, active, running, success,
                   estop, current_plan, timeVars, hist>>
    /\ SchedulerFrame

\* a plan with steps: old_mode = self.config.blend_mode, blend_mode =
\* BLEND_MODE_SIMULTANEOUS, and _execute_simultaneous(plan) is entered
TransitionStepBegin ==
    /\ mainpc = "loop"
    /\ trun.i <= Len(trun.plans)
    /\ trun.plans[trun.i].steps # <<>>
    /\ trun' = [trun EXCEPT !.old_mode = blend_mode]
    /\ blend_mode' = BLEND_MODE_SIMULTANEOUS
    /\ xplan' = trun.plans[trun.i].steps
    /\ thr' = [k \in 1..Len(trun.plans[trun.i].steps) |-> "idle"]
    /\ groups' = GroupsOf(trun.plans[trun.i].steps, BLEND_MODE_SIMULTANEOUS)
    /\ started' = 0
    /\ mainpc' = "blend"
    /\ UNCHANGED <<active, fan, running, success, estop, current_plan, timeVars, hist>>
    /\ SchedulerFrame

\* _execute_simultaneous(plan) has returned: blend_mode = old_mode, the fan
\* burst and the pause
TransitionStepEnd ==
    /\ mainpc = "blend"
    /\ trun.on
    /\ groups = <<>>
    /\ blend_mode' = trun.old_mode
    /\ trun' = [trun EXCEPT !.i = @ + 1]
    /\ fan' = TRUE
    /\ mainpc' = "loop"
    /\ UNCHANGED <<xplan, groups, started, thr, active, running, success, estop,
                   current_plan, timeVars, hist>>
    /\ SchedulerFrame

\* a plan without steps: the fan burst and the pause only
TransitionStepEmpty ==
    /\ mainpc = "loop"
    /\ trun.i <= Len(trun.plans)
    /\ trun.plans[trun.i].steps = <<>>
    /\ trun' = [trun EXCEPT !.i = @ + 1]
    /\ fan' = TRUE
    /\ UNCHANGED <<xplan, blend_mode, mainpc, groups, started, thr, active, running,
                   success, estop, current_plan, timeVars, hist>>
    /\ SchedulerFrame

\* after the last plan: self.fan.off(); return True
TransitionReturn ==
    /\ mainpc = "loop"
    /\ trun.i > Len(trun.plans)
    /\ fan' = FALSE
    /\ success' = TRUE
    /\ mainpc' = "returned"
    /\ UNCHANGED <<xplan, blend_mode, groups, started, thr, active, running, estop,
                   current_plan, timeVars, hist, trun>>
    /\ SchedulerFrame

\* except KeyboardInterrupt, raised anywhere inside the try block:
\* emergency_stop(); return False. The activation threads of the current
\* batch go on.
TransitionInterrupt ==
    /\ mainpc \in {"loop", "blend"}
    /\ trun.on
    /\ active' = [c \in Channels |-> FALSE]
    /\ fan' = FALSE
    /\ running' = FALSE
    /\ success' = FALSE
    /\ groups' = <<>>
    /\ started' = 0
    /\ mainpc' = "returned"
    /\ trun' = [trun EXCEPT !.interrupted = mainpc]
    /\ UNCHANGED <<xplan, blend_mode, thr, estop, current_plan, timeVars, hist>>
    /\ SchedulerFrame

NextTransitionRun ==
    \/ TransitionCall
    \/ TransitionStepBegin
    \/ StartActivation
    \/ \E i \in 1..Len(xplan) : ActivateOn(i)
    \/ \E i \in 1..Len(xplan) : ActivateOff(i)
    \/ JoinGroup
    \/ TransitionStepEnd
    \/ TransitionStepEmpty
    \/ TransitionReturn
    \/ TransitionInterrupt

-----------------------------------------------------------------------------
(* Specifications                                                          *)

ProtocolInit == InitProtocol /\ ParkedCompile /\ ParkedTransition /\ ParkedResolve /\ ParkedLiquid /\ ParkedDispense /\ ParkedExecute

SpecProtocol == ProtocolInit /\ [][NextProtocol]_vars

CompileInit == ParkedProtocol /\ InitCompile /\ ParkedTransition /\ ParkedResolve /\ ParkedLiquid /\ ParkedDispense /\ ParkedExecute

SpecCompile == CompileInit /\ [][NextCompile]_vars

ExecuteInit == ParkedProtocol /\ ParkedCompile /\ ParkedTransition /\ ParkedResolve /\ ParkedLiquid /\ ParkedDispense /\ InitExecute

LiquidInit == ParkedProtocol /\ ParkedCompile /\ ParkedTransition /\ ParkedResolve /\ InitLiquid /\ ParkedDispense /\ ParkedExecute

SpecLiquid == LiquidInit /\ [][NextLiquid]_vars

\* one compilation, by either compiler
CompilersInit ==
    /\ ParkedResolve
    /\ ParkedProtocol
    /\ ParkedTransition
    /\ ParkedDispense
    /\ ParkedExecute
    /\ \/ InitCompile /\ ParkedLiquid
       \/ ParkedCompile /\ InitLiquid

NextCompilers ==
    \/ NextCompile
    \/ NextLiquid

SpecCompilers == CompilersInit /\ [][NextCompilers]_vars

SpecExecute == ExecuteInit /\ [][NextExecute]_vars

SpecCooldown == ExecuteInit /\ [][NextCooldown]_vars

SpecTransitionRun == ExecuteInit /\ [][NextTransitionRun]_vars

\* the dispenser owns a SerialInterface of its own, closed at first
DispenseInit == ParkedCompile /\ ParkedTransition /\ ParkedResolve /\ ParkedLiquid /\ InitDispense /\ ParkedExecute

SpecDispense == DispenseInit /\ [][NextDispense]_vars

ResolveInit ==
    /\ ParkedProtocol
    /\ InitResolve
    /\ ParkedCompile
    /\ ParkedTransition
    /\ ParkedLiquid
    /\ ParkedDispense
    /\ ParkedExecute

SpecResolve == ResolveInit /\ [][NextResolve]_vars

TransitionInit ==
    /\ ParkedResolve
    /\ ParkedProtocol
    /\ ParkedCompile
    /\ InitTransition
    /\ ParkedLiquid
    /\ ParkedDispense
    /\ ParkedExecute

SpecTransition == TransitionInit /\ [][NextTransition]_vars

\* runs of either executor: the atomizer scheduler or the liquid dispenser
RunsInit ==
    /\ ParkedResolve
    /\ ParkedCompile
    /\ ParkedTransition
    /\ ParkedLiquid
    /\ \/ ParkedProtocol /\ ParkedDispense /\ InitExecute
       \/ InitDispense /\ ParkedExecute

NextRuns ==
    \/ NextCooldown
    \/ NextDispense

SpecRuns == RunsInit /\ [][NextRuns]_vars

-----------------------------------------------------------------------------
(* Properties                                                              *)

\* C1: in simultaneous or layered blend mode, at no instant are more than
\* MAX_SIMULTANEOUS_CHANNELS atomizer channels active at the same time.
C1_ConcurrencyBudget ==
    blend_mode \in {BLEND_MODE_SIMULTANEOUS, BLEND_MODE_LAYERED}
        => NumActive <= MAX_SIMULTANEOUS_CHANNELS

\* C2: when emergency_stop() returns, every channel's active flag is false,
\* the fan is off and the Running flag is false.
C2_StopLeavesAllOff ==
    [][ (estop.pc = "running" /\ estop'.pc = "returned")
            => /\ \A c \in Channels : ~active'[c]
               /\ ~fan'
               /\ ~running' ]_vars

\* C3: once emergency_stop() has returned during a run, no further step of
\* the plan is started and no channel is switched on afterwards.
C3_AbortedAfterStop ==
    [][ (estop.pc = "returned" /\ hist.stopped)
            => /\ \A c \in Channels : active'[c] => active[c]
               /\ \A i \in 1..Len(xplan) : thr[i] = "idle" => thr'[i] = "idle" ]_vars

\* C4: the activation times of every compiled plan sum to at most
\* MAX_TOTAL_ACTIVATION_S, rounding included.
C4_TotalCeiling ==
    cphase = "compiled" => SumTimes(plan.steps) <= MAX_TOTAL_ACTIVATION_S

\* C5: every step of every compiled plan has its activation time within
\* [MIN_ACTIVATION_TIME_S, MAX_ACTIVATION_TIME_S], rescaled or not.
C5_StepBounds ==
    cphase = "compiled" =>
        \A i \in 1..Len(plan.steps) :
            /\ plan.steps[i].activation_time_s >= MIN_ACTIVATION_TIME_S
            /\ plan.steps[i].activation_time_s <= MAX_ACTIVATION_TIME_S

\* C6: the wire line of every built command is accepted by verify_checksum.
C6_RoundTrip ==
    (pphase = "verified" /\ lineinfo.kind = "encoded") => verdict

\* C7: an encoded line with one character of its checksum field replaced by
\* a different character is rejected by verify_checksum.
C7_TamperDetected ==
    (pphase = "verified" /\ lineinfo.kind = "tampered") => ~verdict

\* the characters 0-9 and A-F
UpperHexChars == { 48 + d : d \in 0..9 } \cup { 65 + d : d \in 0..5 }

Core(r) == [success |-> r.success, code |-> r.code, message |-> r.message,
            text |-> r.text, data |-> r.data]

\* the received line holds a checksum marker
C9_Marked == pphase = "parsed" /\ Contains(Strip(line), CHECKSUM_PREFIX)

\* the text before the last marker of the stripped line
C9_Pre == SubSeq(Strip(line), 1, RIndex(Strip(line), CHECKSUM_PREFIX))

\* the checksum field (case and surrounding whitespace set aside) is the
\* checksum of the text before the marker
C9_Matches ==
    LET st    == Strip(line)
        field == Strip(SubSeq(st, RIndex(st, CHECKSUM_PREFIX) + 2, Len(st)))
    IN  Upper(field) = BoardHex(BoardXor(C9_Pre))

\* C9 as stated: on a line with a checksum marker, parse returns the E07
\* failure whenever the checksum does not match the text before the marker;
\* when it matches, the result is that of the same line without a checksum.
C9_AsSameLineWithoutChecksum ==
    C9_Marked =>
        IF ~C9_Matches
        THEN ~resp.success /\ resp.code = ERR_CHECKSUM
        ELSE Core(resp) = Core(Parse(C9_Pre))

\* C9 (amended): on a line with a checksum marker, parse returns the E07
\* failure whenever the checksum does not match the text before the marker,
\* whether that text starts with OK or ERR; when it matches, the result is
\* that of the text before the marker parsed as a line of its own, except
\* that an empty text is the unknown-format failure E01 and a marker inside
\* the text is not verified again (the text goes to the OK / ERR / other
\* rules as it is).
C9_ChecksumGate ==
    C9_Marked =>
        IF ~C9_Matches
        THEN ~resp.success /\ resp.code = ERR_CHECKSUM
        ELSE IF Strip(C9_Pre) = <<>>
        THEN ~resp.success /\ resp.code = ERR_UNKNOWN_CMD
        ELSE IF ~Contains(C9_Pre, CHECKSUM_PREFIX)
        THEN Core(resp) = Core(Parse(C9_Pre))
        ELSE /\ resp.success = StartsWith(Strip(C9_Pre), RESPONSE_OK)
             /\ resp.success => resp.code = RESPONSE_OK
             /\ resp.code # ERR_CHECKSUM

C9_Witness ==
    /\ pphase = "parsed"
    /\ lineinfo.kind = "match"
    /\ line = Str(<<" ","O","K"," ","x"," ","*","7","C">>)
    /\ resp.success
    /\ resp.data = Str(<<"x">>)

\* the exchange of a send() ran into a timeout of the port
C10_TimedOut ==
    /\ pphase = "sent"
    /\ ~serial.simulate
    /\ serial.open
    /\ \/ lineinfo.write = "timeout"
       \/ lineinfo.write = "ok" /\ lineinfo.read \in {"silence", "partial"}

\* C10: parse of an empty or whitespace-only line is the E09 failure, and
\* send returns the E09 failure for every exchange that timed out.
C10_TimeoutCode ==
    /\ (pphase = "parsed" /\ Strip(line) = <<>>)
           => (~resp.success /\ resp.code = ERR_TIMEOUT)
    /\ C10_TimedOut => (~resp.success /\ resp.code = ERR_TIMEOUT)

\* the received line went past the checksum step of parse: it holds no
\* marker, or its checksum matches
PassesChecksum == pphase = "parsed" /\ (C9_Marked => C9_Matches)

\* the text parse classifies: the stripped line, without its checksum part
ClassifiedText ==
    IF Contains(Strip(line), CHECKSUM_PREFIX) THEN Strip(C9_Pre) ELSE Strip(line)

\* the text that follows the ERR prefix
AfterErr == LStrip(SubSeq(ClassifiedText, Len(RESPONSE_ERR) + 1, Len(ClassifiedText)))

\* C11: on a line starting with ERR (and past the checksum step) parse returns
\* a failure whose code is the first token after ERR and whose message is the
\* remainder; a missing code is "E00" and a missing message "Unknown error".
C11_ErrFields ==
    (PassesChecksum /\ StartsWith(ClassifiedText, RESPONSE_ERR)) =>
        LET code == FirstToken(AfterErr)
            rest == LStrip(SubSeq(AfterErr, Len(code) + 1, Len(AfterErr)))
        IN  /\ ~resp.success
            /\ resp.code = (IF code = <<>> THEN Str(<<"E","0","0">>) ELSE code)
            /\ IF rest = <<>>
               THEN resp.message = "Unknown error" /\ resp.text = <<>>
               ELSE resp.message = "" /\ resp.text = rest

\* C12 as stated: every non-empty line that starts with neither OK nor ERR is
\* the E01 failure.
C12_AnyOtherLine ==
    (/\ pphase = "parsed"
     /\ Strip(line) # <<>>
     /\ ~StartsWith(Strip(line), RESPONSE_OK)
     /\ ~StartsWith(Strip(line), RESPONSE_ERR))
        => (~resp.success /\ resp.code = ERR_UNKNOWN_CMD)

\* C12 (amended): every non-empty line that is past the checksum step and
\* whose text starts with neither OK nor ERR is the E01 failure; a line with
\* a mismatching checksum is the E07 failure whatever it starts with.
C12_OtherShape ==
    /\ (/\ PassesChecksum
        /\ Strip(line) # <<>>
        /\ ~StartsWith(ClassifiedText, RESPONSE_OK)
        /\ ~StartsWith(ClassifiedText, RESPONSE_ERR))
           => (~resp.success /\ resp.code = ERR_UNKNOWN_CMD)
    /\ (pphase = "parsed" /\ ~PassesChecksum)
           => (~resp.success /\ resp.code = ERR_CHECKSUM)

C12_Witness ==
    /\ pphase = "parsed"
    /\ lineinfo.kind = "match"
    /\ lineinfo.pre = Str(<<"x"," ">>)
    /\ resp.code = ERR_UNKNOWN_CMD
    /\ resp.text = Str(<<"x">>)

\* C13: every Response that parse or send returns carries a code that is OK
\* or one of the nine defined error codes E01..E09.
C13_CodeDefined ==
    pphase \in {"parsed", "sent"} => resp.code \in ResponseCode

\* the arguments of a builder call lie outside the ranges of its method
C14_OutOfRange ==
    LET call == lineinfo.call
    IN  \/ call.verb \in {"PUMP", "CALIBRATE"} /\ (call.channel < 0 \/ call.channel > 255)
        \/ call.verb \in {"PUMP", "WAIT"} /\ call.ms < 0

\* C14: a builder call raises ValueError, and no Command exists, exactly
\* when PUMP or CALIBRATE gets a channel outside [0,255] or PUMP or WAIT a
\* negative duration; every other call returns the Command of its method
\* and arguments; only a Command that was built is ever transmitted.
C14_BuilderValidation ==
    /\ (pphase = "built" /\ lineinfo.kind = "call") =>
          IF C14_OutOfRange
          THEN cmd = Rejected
          ELSE /\ cmd.error = ""
               /\ cmd.command_type = lineinfo.call.verb
               /\ cmd.raw # <<>>
    /\ pphase = "sent" => cmd.error = ""

C14_Witness ==
    /\ pphase = "built"
    /\ lineinfo.call = [verb |-> "PUMP", channel |-> 256, ms |-> 0]
    /\ cmd = Rejected

\* the items of the formula a step was emitted for
StepItems == { i \in 1..Len(dinfo) : dinfo[i].outcome = "step" }

\* the exact raw duration of item i, as a fraction num / den of a millisecond
DurationNum(i) == lformula[i].percentage * total_volume_ml * 6000
DurationDen(i) ==
    effective_flow_rate(pumps[pump_find_channel_for_ingredient(lformula[i].name)])

\* no skip condition of create_plan holds for item i
Dispensable(i) ==
    LET volume  == lformula[i].percentage * total_volume_ml
        channel == pump_find_channel_for_ingredient(lformula[i].name)
    IN  /\ lformula[i].percentage > 0
        /\ volume >= MIN_DISPENSE_VOLUME_ML
        /\ channel # -1
        /\ volume <= pumps[channel].max_volume_ml
        /\ effective_flow_rate(pumps[channel]) > 0

\* C15: the duration of every emitted step is min(max(d, MIN_PUMP_DURATION_MS),
\* MAX_PUMP_DURATION_MS) for the raw duration d, hence within the two bounds,
\* and an item whose raw duration lies above the ceiling is emitted as a step
\* of MAX_PUMP_DURATION_MS, not skipped.
C15_DurationClamp ==
    lphase = "compiled" =>
        /\ \A i \in StepItems :
              LET d  == dinfo[i].raw_ms
                  lo == IF d > MIN_PUMP_DURATION_MS THEN d ELSE MIN_PUMP_DURATION_MS
                  hi == IF lo < MAX_PUMP_DURATION_MS THEN lo ELSE MAX_PUMP_DURATION_MS
              IN  dinfo[i].duration_ms = hi
        /\ \A k \in 1..Len(dplan.steps) :
              /\ dplan.steps[k].duration_ms >= MIN_PUMP_DURATION_MS
              /\ dplan.steps[k].duration_ms <= MAX_PUMP_DURATION_MS
              /\ \E i \in StepItems :
                    /\ dplan.steps[k].ingredient = lformula[i].name
                    /\ dplan.steps[k].duration_ms = dinfo[i].duration_ms
        /\ Len(dplan.steps) = Cardinality(StepItems)
        /\ \A i \in 1..Len(lformula) :
              (Dispensable(i) /\ DurationNum(i) > MAX_PUMP_DURATION_MS * DurationDen(i))
                  => (i \in StepItems /\ dinfo[i].duration_ms = MAX_PUMP_DURATION_MS)

C15_Witness ==
    /\ lphase = "compiled"
    /\ dplan.skipped = <<>>
    /\ \E i \in StepItems :
          dinfo[i].raw_ms = 600000 /\ dinfo[i].duration_ms = MAX_PUMP_DURATION_MS

\* round(num / den): the nearest whole number, a tie going to the even one
RoundNearest(num, den) ==
    LET q == num \div den
        r == num % den
    IN  IF 2 * r < den THEN q
        ELSE IF 2 * r > den THEN q + 1
        ELSE IF q % 2 = 0 THEN q ELSE q + 1

\* C16: the raw duration of every step is
\* round(volume / (flow rate * calibration factor) * 60000) milliseconds.
C16_RoundedDuration ==
    lphase = "compiled" =>
        \A i \in StepItems :
            dinfo[i].raw_ms = RoundNearest(DurationNum(i), DurationDen(i))

\* how many records of a sequence carry the ingredient name
Named(records, name) == Cardinality({ k \in 1..Len(records) : records[k].ingredient = name })

\* an atomizer ingredient that is neither a carrier nor a solvent
Eligible(ing) ==
    /\ LabelLower(ing.note_type) # "carrier"
    /\ LabelLower(ing.category) \notin {"carrier", "solvent"}

\* C17: every compilation returns a plan, and in it every eligible
\* ingredient with a positive percentage has exactly one record, a step or a
\* skip record; it is a skip record exactly when a skip condition holds
\* (liquid: volume below the minimum, no channel, volume above the channel
\* maximum, flow rate not positive; atomizer: no channel), whatever happened
\* to the ingredients before it.
C17_StepOrSkip ==
    /\ lphase = "compiled" =>
          \A i \in 1..Len(lformula) :
              LET name == lformula[i].name
                  same == { j \in 1..Len(lformula) :
                              lformula[j].name = name /\ lformula[j].percentage > 0 }
              IN  lformula[i].percentage > 0 =>
                    /\ Named(dplan.steps, name) + Named(dplan.skipped, name)
                          = Cardinality(same)
                    /\ dinfo[i].outcome = (IF Dispensable(i) THEN "step" ELSE "skip")
                    /\ Named(dplan.steps, name)
                          = Cardinality({ j \in same : Dispensable(j) })
    /\ cphase = "compiled" =>
          \A i \in 1..Len(formula) :
              LET name == formula[i].name
                  same == { j \in 1..Len(formula) :
                              formula[j].name = name /\ formula[j].percentage > 0 }
              IN  (Eligible(formula[i]) /\ formula[i].percentage > 0) =>
                    /\ Named(plan.steps, name) + Named(plan.skipped, name)
                          = Cardinality(same)
                    /\ IF find_channel_for_ingredient(name) = -1
                       THEN Named(plan.steps, name) = 0
                       ELSE Named(plan.skipped, name) = 0

C17_Witness ==
    /\ lphase = "compiled"
    /\ Len(lformula) = 3
    /\ dinfo[1].outcome = "skip"
    /\ dinfo[1].reason = "No pump channel assigned for this ingredient"
    /\ dinfo[2].outcome = "skip"
    /\ dinfo[2].reason = "Volume too small"
    /\ dinfo[3].outcome = "step"
    /\ Len(dplan.steps) = 1
    /\ Len(dplan.skipped) = 2

\* the percentages of the ingredients that are neither carrier nor solvent
EligiblePercentages ==
    { formula[i].percentage : i \in { j \in 1..Len(formula) : Eligible(formula[j]) } }

\* C18: an atomizer ingredient whose note type is carrier, or whose category
\* is carrier or solvent, has no step and no skip record in the compiled
\* plan, and max_pct is taken over the other ingredients only.
C18_CarrierSolventExcluded ==
    cphase = "compiled" =>
        /\ \A i \in 1..Len(formula) :
              ~Eligible(formula[i]) =>
                  /\ Named(plan.steps, formula[i].name) = 0
                  /\ Named(plan.skipped, formula[i].name) = 0
        /\ EligiblePercentages # {} =>
              MaxPct(AromaIngredients(formula))
                  = (IF MaxOf(EligiblePercentages) <= 0 THEN 1
                     ELSE MaxOf(EligiblePercentages))

\* max_pct as the largest percentage among the ingredients that are neither
\* carrier nor solvent, 1 when that is not positive
EligibleMaxPct ==
    IF EligiblePercentages = {} \/ MaxOf(EligiblePercentages) <= 0 THEN 1
    ELSE MaxOf(EligiblePercentages)

IntensityMultiplier ==
    IF intensity \in DOMAIN INTENSITY_PRESETS THEN INTENSITY_PRESETS[intensity]
    ELSE INTENSITY_PRESETS[DEFAULT_INTENSITY]

\* C19: in a compiled atomizer plan the step of every ingredient that is
\* neither carrier nor solvent has the activation time
\* (percentage / max_pct) * MAX_ACTIVATION_TIME_S * intensity multiplier,
\* clamped into [MIN_ACTIVATION_TIME_S, MAX_ACTIVATION_TIME_S] (to 1/100 s),
\* with max_pct the largest percentage among those ingredients; with the
\* intensity low the ingredient at max_pct has 3.0 s.
C19_ActivationTime ==
    cphase = "compiled" =>
        \A k \in 1..Len(plan.steps) : \A i \in 1..Len(formula) :
            LET step == plan.steps[k]
            IN  ( /\ formula[i].name = step.ingredient
                  /\ Eligible(formula[i]) ) =>
                    /\ step.activation_time_s
                          = ActivationTime(step.percentage, EligibleMaxPct,
                                           IntensityMultiplier)
                    /\ (intensity = "low" /\ step.percentage = EligibleMaxPct)
                          => step.activation_time_s = 300

\* C20: in a run of execute() that follows a finished run on the same
\* controller, the fan is not on and no channel is active before
\* COOLDOWN_BETWEEN_RUNS_S has passed since that run ended.
C20_Cooldown ==
    (last_run_time > 0 /\ mainpc \in {"cooldown", "begun", "blend", "finally"}
        /\ (fan \/ NumActive > 0))
        => now - last_run_time >= COOLDOWN_BETWEEN_RUNS_S

C20_Witness ==
    /\ hist.calls = 2
    /\ hist.waited
    /\ hist.aborted
    /\ mainpc = "blend"
    /\ fan
    /\ NumActive > 0
    /\ now - last_run_time = COOLDOWN_BETWEEN_RUNS_S

\* C21: during a run of execute() on a non-empty plan the fan is on
\* whenever a channel is active (so it was turned on before the first
\* activation), and the fan is off when execute() has returned.
C21_FanCoversRun ==
    /\ (InRun /\ NumActive > 0) => fan
    /\ (mainpc = "returned" /\ xplan # <<>>) => ~fan

\* C22: execute() on a plan without steps returns failure at once and
\* changes nothing. Atomizer: no channel is activated, the fan is not
\* switched, the Running flag, the current plan and the last-run time stamp
\* are as before. Liquid: the port is not opened and no command is handed to
\* send().
C22_EmptyPlanNoOp ==
    [][ /\ (hist'.calls = hist.calls + 1 /\ xplan' = <<>>)
            => /\ mainpc' = "returned"
               /\ ~success'
               /\ UNCHANGED <<active, fan, running, current_plan, last_run_time>>
        /\ (dpc = "idle" /\ dpc' # "idle" /\ xsteps' = <<>>)
            => /\ dpc' = "returned"
               /\ ~dsuccess'
               /\ UNCHANGED <<wire, serial, resp>> ]_vars

C22_Witness ==
    /\ hist.calls = 2
    /\ xplan = <<>>
    /\ mainpc = "returned"
    /\ current_plan # <<>>
    /\ last_run_time > 0
    /\ ~success

\* how many of the calls handed to send() have the verb
Sent(verb) == Cardinality({ k \in 1..Len(wire) : wire[k].verb = verb })

\* C23: once the response to the PUMP command of step k is a failure, no
\* PUMP or WAIT of a later step is handed to send(); a STOP command has been
\* handed to send() when execute() is left, and it returns failure.
C23_PumpFailureAborts ==
    dhist.pump_failed > 0 =>
        /\ Sent("PUMP") = dhist.pump_failed
        /\ Sent("WAIT") = dhist.pump_failed - 1
        /\ dpc \in {"finally", "returned", "raised"} =>
              (Sent("STOP") >= 1 /\ wire[Len(wire)].verb = "STOP")
        /\ dpc = "returned" => ~dsuccess
        /\ dpc = "raised" => dhist.interrupted = "finally"

C23_Witness ==
    /\ dpc = "returned"
    /\ Len(xsteps) = 2
    /\ dhist.pump_failed = 1
    /\ dhist.interrupted = ""
    /\ [k \in 1..Len(wire) |-> wire[k].verb] = <<"START", "PUMP", "STOP">>
    /\ ~resp.success
    /\ ~dsuccess

\* C24: a KeyboardInterrupt during execute() never leaves execute() as an
\* exception. Liquid: a STOP command has been handed to send() and execute()
\* returns failure. Atomizer: when execute() has returned, every channel and
\* the fan are off, the result is failure and the Running flag is false.
C24_InterruptContained ==
    /\ dpc # "raised"
    /\ (dhist.interrupted # "" /\ dpc = "returned")
          => (~dsuccess /\ Sent("STOP") >= 1)
    /\ hist.interrupt # "raised"
    /\ (hist.interrupt = "caught" /\ mainpc = "returned")
          => (~success /\ ~running /\ ~fan /\ NumActive = 0)

\* C25: create_transition_plans returns steps + 1 plans; plan 0 has the
\* channels and activation times of the compiled from-formula, step for step,
\* and the last plan those of the compiled to-formula.
StepTimes(steps) ==
    [k \in 1..Len(steps) |-> <<steps[k].channel, steps[k].activation_time_s>>]

C25_TransitionEndpoints ==
    tphase = "done" =>
        /\ Len(tplans) = tin.steps + 1
        /\ StepTimes(tplans[1].steps)
             = StepTimes(create_plan(tin.from, tin.intensity).steps)
        /\ StepTimes(tplans[tin.steps + 1].steps)
             = StepTimes(create_plan(tin.to, tin.intensity).steps)

\* C26: over the plans 0..N of a crossfade, the activation time of a channel
\* that only the compiled from-formula uses never increases, and that of a
\* channel that only the compiled to-formula uses never decreases; a channel
\* without a step in a plan counts as 0.
RECURSIVE ChannelTime(_, _)
ChannelTime(steps, c) ==
    IF steps = <<>> THEN 0
    ELSE (IF Head(steps).channel = c THEN Head(steps).activation_time_s ELSE 0)
         + ChannelTime(Tail(steps), c)

UsedBy(ingredients) ==
    LET st == create_plan(ingredients, tin.intensity).steps
    IN  {st[k].channel : k \in 1..Len(st)}

C26_MonotonicCrossfade ==
    tphase = "done" =>
        LET from_used == UsedBy(tin.from)
            to_used   == UsedBy(tin.to)
        IN  \A i \in 1..(Len(tplans) - 1) :
                /\ \A c \in from_used \ to_used :
                      ChannelTime(tplans[i + 1].steps, c)
                          <= ChannelTime(tplans[i].steps, c)
                /\ \A c \in to_used \ from_used :
                      ChannelTime(tplans[i + 1].steps, c)
                          >= ChannelTime(tplans[i].steps, c)

\* a crossfade of three or more plans in which one channel fades out and
\* another fades in, each through a time strictly between its end values
C26_Witness ==
    /\ tphase = "done"
    /\ Len(tplans) >= 3
    /\ \E c \in UsedBy(tin.from) \ UsedBy(tin.to) :
          /\ ChannelTime(tplans[1].steps, c) > ChannelTime(tplans[2].steps, c)
          /\ ChannelTime(tplans[2].steps, c) > 0
          /\ ChannelTime(tplans[Len(tplans)].steps, c) = 0
    /\ \E c \in UsedBy(tin.to) \ UsedBy(tin.from) :
          /\ ChannelTime(tplans[1].steps, c) = 0
          /\ ChannelTime(tplans[2].steps, c) > 0
          /\ ChannelTime(tplans[Len(tplans)].steps, c) > ChannelTime(tplans[2].steps, c)

C28_AppliedTotal ==
    cphase = "compiled" => Applied(plan.steps) <= MAX_TOTAL_ACTIVATION_S

\* C29: in simultaneous mode the steps are split, in plan order, into
\* consecutive batches of at most MAX_SIMULTANEOUS_CHANNELS steps, and no
\* step of a later batch has its thread started before every step of each
\* earlier batch has finished (or was passed over for want of a channel).
RECURSIVE Flatten(_)
Flatten(gs) == IF gs = <<>> THEN <<>> ELSE Head(gs) \o Flatten(Tail(gs))

GroupIndex(gs, i) == CHOOSE k \in 1..Len(gs) : \E j \in 1..Len(gs[k]) : gs[k][j] = i

Begun(i)    == thr[i] \in {"started", "on", "done"}
Finished(i) == thr[i] \in {"done", "skipped"}

C29_BatchOrder ==
    (blend_mode = BLEND_MODE_SIMULTANEOUS /\ mainpc \in {"blend", "finally", "returned"}) =>
        LET batches == Batches(1, Len(xplan))
        IN  /\ Flatten(batches) = [i \in 1..Len(xplan) |-> i]
            /\ \A k \in 1..Len(batches) :
                  Len(batches[k]) \in 1..MAX_SIMULTANEOUS_CHANNELS
            /\ \A i, j \in 1..Len(xplan) :
                  (GroupIndex(batches, i) < GroupIndex(batches, j) /\ Begun(j))
                      => Finished(i)

\* the second batch of a plan is being activated after the first, full batch
C29_Witness ==
    /\ blend_mode = BLEND_MODE_SIMULTANEOUS
    /\ mainpc = "blend"
    /\ Len(xplan) > MAX_SIMULTANEOUS_CHANNELS
    /\ thr[MAX_SIMULTANEOUS_CHANNELS + 1] = "on"
    /\ \A i \in 1..MAX_SIMULTANEOUS_CHANNELS : thr[i] = "done"

\* C30: in layered mode the base steps come first, then the heart steps
\* together with the middle steps and the steps of any other note type, then
\* the top steps; no step of a later layer has its thread started before
\* every step of each earlier layer has finished.
LayerRank(st) ==
    CASE LabelLower(st.note_type) = "base" -> 1
      [] LabelLower(st.note_type) = "top"  -> 3
      [] OTHER                             -> 2

C30_LayerOrder ==
    (blend_mode = BLEND_MODE_LAYERED /\ mainpc \in {"blend", "finally", "returned"}) =>
        \A i, j \in 1..Len(xplan) :
            (LayerRank(xplan[i]) < LayerRank(xplan[j]) /\ Begun(j)) => Finished(i)

\* the top layer is being activated after a heart layer that a middle step
\* was merged into
C30_Witness ==
    /\ blend_mode = BLEND_MODE_LAYERED
    /\ mainpc = "blend"
    /\ \E i, j, k \in 1..Len(xplan) :
          /\ xplan[i].note_type = "heart" /\ thr[i] = "done"
          /\ xplan[j].note_type = "middle" /\ thr[j] = "done"
          /\ xplan[k].note_type = "top" /\ thr[k] = "on"

\* C31: in sequential mode at most one channel is active at any instant and
\* the steps are activated in plan order, a step only after every step
\* before it in the plan has finished.
C31_SequentialOrder ==
    (blend_mode = BLEND_MODE_SEQUENTIAL /\ mainpc \in {"blend", "finally", "returned"}) =>
        /\ NumActive <= 1
        /\ Cardinality({i \in 1..Len(xplan) : thr[i] \in {"started", "on"}}) <= 1
        /\ \A i, j \in 1..Len(xplan) : (i < j /\ Begun(j)) => Finished(i)

\* the second step of a sequential run is active after the first has ended
C31_Witness ==
    /\ blend_mode = BLEND_MODE_SEQUENTIAL
    /\ mainpc = "blend"
    /\ Len(xplan) >= 2
    /\ thr[1] = "done"
    /\ thr[2] = "on"
    /\ active[xplan[2].channel]

RECURSIVE StepCalls(_, _)
StepCalls(steps, i) ==
    IF i > Len(steps) THEN <<>>
    ELSE << [verb |-> "PUMP", channel |-> steps[i].channel, ms |-> steps[i].duration_ms],
            [NoCall EXCEPT !.verb = "WAIT", !.ms = INTER_PUMP_DELAY_MS] >>
         \o StepCalls(steps, i + 1)

\* START, then PUMP and WAIT for each step in plan order
ExpectedCalls(steps) ==
    <<[NoCall EXCEPT !.verb = "START"]>> \o StepCalls(steps, 1)

StopCall == [NoCall EXCEPT !.verb = "STOP"]

IsPrefix(a, b) == Len(a) <= Len(b) /\ a = SubSeq(b, 1, Len(a))

\* a beginning of the expected sequence, closed by STOP or not
InOrder(w, steps) ==
    \/ IsPrefix(w, ExpectedCalls(steps))
    \/ /\ w # <<>>
       /\ w[Len(w)] = StopCall
       /\ IsPrefix(SubSeq(w, 1, Len(w) - 1), ExpectedCalls(steps))

\* the except clause has sent its STOP
HandlerStopSent ==
    /\ dhist.interrupted \in {"start", "pump", "wait", "stop"}
    /\ dpc \in {"finally", "returned"}

\* C32: the commands are handed to send() in the order START, PUMP
\* and WAIT per step, STOP, a successful run sends the whole sequence, and no
\* command is sent while the response of the previous one is outstanding.
C32_StrictlySynchronous ==
    dpc # "off" =>
        /\ InOrder(wire, xsteps)
        /\ (dpc = "returned" /\ dsuccess)
              => wire = Append(ExpectedCalls(xsteps), StopCall)
        /\ ~(dhist.unanswered /\ HandlerStopSent)

\* C33: a failed response to a WAIT command does not abort the run: unless
\* the run is interrupted, the PUMP of the next step is sent, and when no
\* PUMP fails execute() returns success.
C33_WaitFailureTolerated ==
    (dhist.wait_failed > 0 /\ dhist.interrupted = "") =>
        /\ (dhist.wait_failed < Len(xsteps)
               /\ ~(dpc = "pump" /\ dnext = dhist.wait_failed + 1))
              => Sent("PUMP") > dhist.wait_failed
        /\ (dpc = "returned" /\ dhist.pump_failed = 0) => dsuccess

\* a run whose first WAIT failed has pumped its second step and returned
\* success
C33_Witness ==
    /\ dpc = "returned"
    /\ dsuccess
    /\ Len(xsteps) = 2
    /\ dhist.wait_failed = 1
    /\ Sent("PUMP") = 2

\* C34 as stated: the lookup returns a channel whose ingredient name equals
\* the asked name without regard to case whenever there is one, even when an
\* earlier channel matches as a substring; otherwise the first channel whose
\* name contains the asked name or is contained in it; otherwise none. The
\* configuration's channels are left as they were.
SameAsGiven(c) == Lower(rchannels[c]) = Lower(rin.name)
PartOfGiven(c) ==
    \/ IsSubstring(Lower(rin.name), Lower(rchannels[c]))
    \/ IsSubstring(Lower(rchannels[c]), Lower(rin.name))

C34_ResolutionOfGivenName ==
    rphase = "done" =>
        /\ rchannels = rin.channels
        /\ (\E c \in DOMAIN rchannels : SameAsGiven(c))
              => /\ rout \in DOMAIN rchannels
                 /\ SameAsGiven(rout)
        /\ (/\ \A c \in DOMAIN rchannels : ~SameAsGiven(c)
            /\ \E c \in DOMAIN rchannels : PartOfGiven(c))
              => /\ rout \in DOMAIN rchannels
                 /\ PartOfGiven(rout)
                 /\ \A d \in 0..(rout - 1) : ~PartOfGiven(d)
        /\ (\A c \in DOMAIN rchannels : ~PartOfGiven(c)) => rout = -1

\* C34 (amended): the same, for the asked name as the configuration compares
\* it: the diffuser configuration strips its surrounding white space first,
\* the pump configuration does not. Of several channels with an equal name
\* the first is returned.
Asked ==
    IF rin.config = "diffuser" THEN Strip(Lower(rin.name)) ELSE Lower(rin.name)

SameName(c)  == Lower(rchannels[c]) = Asked
PartOfName(c) ==
    \/ IsSubstring(Asked, Lower(rchannels[c]))
    \/ IsSubstring(Lower(rchannels[c]), Asked)

C34_Resolution ==
    rphase = "done" =>
        /\ rchannels = rin.channels
        /\ (\E c \in DOMAIN rchannels : SameName(c))
              => /\ rout \in DOMAIN rchannels
                 /\ SameName(rout)
                 /\ \A d \in 0..(rout - 1) : ~SameName(d)
        /\ (/\ \A c \in DOMAIN rchannels : ~SameName(c)
            /\ \E c \in DOMAIN rchannels : PartOfName(c))
              => /\ rout \in DOMAIN rchannels
                 /\ PartOfName(rout)
                 /\ \A d \in 0..(rout - 1) : ~PartOfName(d)
        /\ (\A c \in DOMAIN rchannels : ~PartOfName(c)) => rout = -1

\* the asked name equals the name of a later channel and is part of the name
\* of an earlier one; the later channel is returned
C34_Witness ==
    /\ rphase = "done"
    /\ rout > 0
    /\ SameName(rout)
    /\ PartOfName(0)
    /\ ~SameName(0)
    /\ rchannels[rout] # rin.name

\* C35: the steps of every liquid plan are in the order of their note-type
\* rank (carrier 0, base 1, heart 2, top 3, anything else 2) and, within one
\* rank, of falling duration; every carrier step precedes every other step.
LiquidRank(note_type) ==
    IF note_type = "carrier" THEN 0
    ELSE IF note_type = "base" THEN 1
    ELSE IF note_type = "top" THEN 3
    ELSE 2

C35_LiquidOrder ==
    lphase = "compiled" =>
        \A i, j \in 1..Len(dplan.steps) :
            i < j =>
                LET a == dplan.steps[i]
                    b == dplan.steps[j]
                IN  /\ LiquidRank(a.note_type) <= LiquidRank(b.note_type)
                    /\ LiquidRank(a.note_type) = LiquidRank(b.note_type)
                          => a.duration_ms >= b.duration_ms
                    /\ b.note_type = "carrier" => a.note_type = "carrier"

\* a plan whose carrier step, listed last in the formula, comes first, and
\* whose two steps of one rank were listed with the shorter one first
C35_Witness ==
    /\ lphase = "compiled"
    /\ Len(dplan.steps) = 3
    /\ dplan.steps[1].note_type = "carrier"
    /\ LiquidRank(dplan.steps[2].note_type) = LiquidRank(dplan.steps[3].note_type)
    /\ dplan.steps[2].duration_ms > dplan.steps[3].duration_ms
    /\ dplan.steps[2].ingredient = lformula[2].name
    /\ dplan.steps[3].ingredient = lformula[1].name

\* C36: in every intermediate plan of a crossfade the from-steps are there
\* only when blend_from > 0.05 and the to-steps only when blend_to > 0.05,
\* each with its time scaled by its blend weight; the scaled times of the
\* to-steps on a channel that is already in the plan are added to the first
\* step on that channel and make no further step; no step shorter than
\* MIN_ACTIVATION_TIME_S is left.
RECURSIVE TimesOn(_, _)
TimesOn(steps, c) ==
    IF steps = <<>> THEN <<>>
    ELSE (IF Head(steps).channel = c THEN <<Head(steps).activation_time_s>> ELSE <<>>)
         \o TimesOn(Tail(steps), c)

\* the times on one channel that the claim asks of plan i out of n
ExpectedTimesOn(c, from_steps, to_steps, i, n, up) ==
    LET from_on == 20 * (n - i) > n
        to_on   == 20 * i > n
        ft      == IF from_on THEN TimesOn(from_steps, c) ELSE <<>>
        tt      == IF to_on THEN TimesOn(to_steps, c) ELSE <<>>
        fs      == [k \in 1..Len(ft) |-> RoundTie(ft[k] * (n - i), n, up)]
        ts      == [k \in 1..Len(tt) |-> RoundTie(tt[k] * i, n, up)]
        Sum[k \in 0..Len(ts)] == IF k = 0 THEN 0 ELSE Sum[k - 1] + ts[k]
        all     == IF fs # <<>> THEN [fs EXCEPT ![1] = @ + Sum[Len(ts)]]
                   ELSE IF ts # <<>> THEN <<Sum[Len(ts)]>>
                   ELSE <<>>
    IN  SelectSeq(all, LAMBDA t : t >= MIN_ACTIVATION_TIME_S)

DistinctChannels(steps) ==
    \A i, j \in 1..Len(steps) : steps[i].channel = steps[j].channel => i = j

C37_OneStepPerChannel ==
    /\ cphase = "compiled" => DistinctChannels(plan.steps)
    /\ lphase = "compiled" => DistinctChannels(dplan.steps)

\* C38: whenever an atomizer channel is active the Running flag of the
\* controller is true.
C38_ActiveOnlyWhileRunning ==
    NumActive > 0 => running

\* C39: when execute() of the liquid dispenser has handed START to send()
\* and has disconnected and returned, it has handed STOP to send() before.
C39_StopBeforeDisconnect ==
    (dpc = "returned" /\ Sent("START") >= 1) => Sent("STOP") >= 1

\* C40: when execute_transition() has returned, on any exit path,
\* config.blend_mode has the value it had before the call.
C40_BlendModeRestored ==
    (trun.on /\ mainpc = "returned") => blend_mode = trun.before

=============================================================================
